---------------------------- MODULE Spec2Model ----------------------------
(***************************************************************************)
(* ZenQ: a lock-free ring buffer queue with parked producers and a         *)
(* selector.  Every step below is one shared-memory access (atomic load,   *)
(* store, add, swap or compare-and-swap) of the Go code, together with the *)
(* goroutine-local computation that follows it.                            *)
(*                                                                         *)
(* Sources: src/unnamed/part_010 lines 1-362 (ZenQ), src/unnamed/part_016  *)
(* (ThreadParker), src/selector.go lines 109-232 (Selection and Select),   *)
(* src/list.go (List), src/zenq.go lines 332-355 (the Load8/Store8 Close). *)
(***************************************************************************)
EXTENDS Integers, Sequences, FiniteSets, TLC

----------------------------------------------------------------------------
(* Bounds of the model *)

\* number of bits of the uint32 indices, scaled down (indices wrap mod 2^IndexBits)
IndexBits == 3
\* parkSpot objects that can ever be allocated with new(parkSpot[T])
MaxParkSpots == 6
\* node objects that can ever be allocated with new(node)
MaxNodes == 4
\* Selection objects that can ever be allocated by selectionPool.New
MaxSelections == 2

IndexModulus == 2 ^ IndexBits
\* an addend that wraps to no change: a rollback that leaves the index where it is
NoRollback == IndexModulus
\* math.MaxUint32 at the scaled width
MaxUint == IndexModulus - 1

----------------------------------------------------------------------------
(* Program constants *)

StateOpen == 0
StateClosedForWrites == 1
StateFullyClosed == 2

SelectionOpen == 0
SelectionRunning == 1

SlotEmpty == 0
SlotBusy == 1
SlotCommitted == 2
SlotClosed == 3

----------------------------------------------------------------------------
(* Goroutines, queues and objects *)

Queues == {1, 2}
\* ring slots a queue of this model can have (capacity 1 or 2)
SlotIds == {0, 1}
Users == {"p1", "p2", "c1", "c2", "k1", "k2", "s1"}
auxOf == [q \in Queues |-> IF q = 1 THEN "a1" ELSE "a2"]
AuxTasks == {auxOf[q] : q \in Queues}
Tasks == Users \cup AuxTasks

\* nil pointers and the zero value of T
NoG == "nil"
NilSpot == 0
NilSel == 0
Zero == 0

ParkSpots == 1 .. MaxParkSpots
Nodes == 1 .. MaxNodes
Selections == 1 .. MaxSelections

VARIABLES
    writerIndex,   \* ZenQ.writerIndex, per queue
    readerIndex,   \* ZenQ.readerIndex
    globalState,   \* ZenQ.globalState
    indexMask,     \* ZenQ.indexMask
    slotState,     \* slot.State, per queue and slot
    slotItem,      \* slot.Item
    tpHead,        \* slot.WriteParker.head
    tpTail,        \* slot.WriteParker.tail
    spot,          \* the parkSpot objects: next, threadPtr, value
    spotsMade,     \* parkSpots created so far by new(parkSpot[T])
    parkPool,      \* contents of the queue's parkPool (sync.Pool)
    selState,      \* selectFactory.state
    auxThread,     \* selectFactory.auxThread
    backlog,       \* selectFactory.backlog (Zero when nil)
    waitList,      \* selectFactory.waitList, the enqueued Selection pointers
    selection,     \* the Selection objects, with the g each ThreadPtr points to
    selsMade,      \* Selections created so far by selectionPool.New
    selectionPool, \* contents of selectionPool
    listHead,      \* List.head of a list of src/list.go, per queue
    listTail,      \* List.tail
    node,          \* the node objects: next, value
    nodesMade,     \* nodes created so far by new(node)
    nodePool,      \* contents of nodePool
    gstatus,       \* runtime status of each goroutine: running or waiting
    pc,            \* position of each goroutine in its code
    lv,            \* local variables of each goroutine
    todo,          \* calls each user goroutine still has to make
    hist,          \* results of the calls each goroutine has completed
    ghost          \* observations kept for the properties only

vars == << writerIndex, readerIndex, globalState, indexMask, slotState, slotItem,
           tpHead, tpTail, spot, spotsMade, parkPool, selState, auxThread,
           backlog, waitList, selection, selsMade, selectionPool, listHead,
           listTail, node, nodesMade, nodePool, gstatus, pc, lv, todo, hist, ghost >>

ringVars == << writerIndex, readerIndex, globalState, indexMask, slotState, slotItem >>
parkerVars == << tpHead, tpTail, spot, spotsMade, parkPool >>
listVars == << listHead, listTail, node, nodesMade, nodePool >>
selectVars == << selState, auxThread, backlog, waitList, selection, selsMade,
                 selectionPool >>

\* a goroutine's locals outside any call
NoLocals == [q |-> 0, value |-> Zero, slot |-> 0, n |-> NilSpot, head |-> NilSpot,
             tail |-> NilSpot, next |-> NilSpot, data |-> Zero, ok |-> FALSE,
             freeable |-> NilSpot, thr |-> NoG, sel |-> NilSel, caller |-> "user",
             readState |-> FALSE, queueOpen |-> TRUE, auxData |-> Zero,
             streams |-> << >>, idx |-> 0, numStreams |-> 0, numSignals |-> 0]

EmptySpot == [next |-> NilSpot, threadPtr |-> NoG, value |-> Zero]

----------------------------------------------------------------------------
(* Pure helpers *)

\* x & indexMask, for a mask of the form 2^k - 1
MaskIndex(x, mask) == x % (mask + 1)

\* atomic.AddUint32(&x, d): the new value, wrapping at the word size
AddUint(x, d) == (x + d) % IndexModulus

RECURSIVE CeilLog2(_)
CeilLog2(val) == IF val <= 1 THEN 0 ELSE 1 + CeilLog2((val + 1) \div 2)

Min(a, b) == IF a < b THEN a ELSE b

\* nextGreaterPowerOf2: 1 << min(ceil(log2(max(val, 1))), 31)
nextGreaterPowerOf2(val) == 2 ^ Min(CeilLog2(val), 31)

----------------------------------------------------------------------------
(* Calls and returns *)

Goto(t, label, locals) ==
    /\ pc' = [pc EXCEPT ![t] = label]
    /\ lv' = [lv EXCEPT ![t] = locals]

\* a nil pointer dereference: the panic ends every goroutine of the program
Panic ==
    /\ pc' = [t \in Tasks |-> "panic"]
    /\ lv' = lv

\* the calls of kind op on queue q that have returned, as (goroutine, position) pairs
Returned(op, q) ==
    { e \in UNION { {<<u, i>> : i \in 1 .. Len(hist[u])} : u \in Users } :
        hist[e[1]][e[2]].op = op /\ hist[e[1]][e[2]].q = q }

\* the values whose Write on q has returned with queueClosedForWrites = false
WrittenValues(q) ==
    { hist[e[1]][e[2]].value : e \in { x \in Returned("Write", q) : ~ hist[x[1]][x[2]].res } }

Producers == {"p1", "p2"}

\* every producer has made all its calls
ProducersDone == \A u \in Producers : pc[u] = "idle" /\ todo[u] = << >>

\* a user goroutine starts the next call of its program
Call(t) ==
    /\ pc[t] = "idle"
    /\ todo[t] # << >>
    /\ Head(todo[t]).join => ProducersDone
    /\ LET c == Head(todo[t]) IN
         /\ Goto(t, c.entry, [NoLocals EXCEPT !.q = c.q, !.value = c.value,
                                              !.streams = c.streams,
                                              !.caller = c.caller])
         /\ ghost' = IF c.op = "Close" /\ ~ ghost.closeCalled[c.q]
                       THEN [ghost EXCEPT !.closeCalled[c.q] = TRUE,
                                          !.writtenBeforeClose[c.q] = WrittenValues(c.q)]
                       ELSE IF c.op = "Read" /\ globalState[c.q] = StateFullyClosed
                              THEN [ghost EXCEPT !.lateReads =
                                                    @ \cup {<< t, Len(hist[t]) + 1 >>}]
                              ELSE IF c.op = "Reset"
                                     THEN [ghost EXCEPT !.quietAtReset =
                                             \A u \in Producers :
                                               /\ todo[u] = << >>
                                               /\ \/ pc[u] = "idle"
                                                  \/ /\ pc[u] = "Write_parked"
                                                     /\ gstatus[u] = "waiting"]
                                     ELSE ghost
    /\ todo' = [todo EXCEPT ![t] = Tail(@)]
    /\ UNCHANGED << ringVars, listVars, parkerVars, selectVars, gstatus, hist >>

Result(op, q, value, res) == [op |-> op, q |-> q, value |-> value, res |-> res]

\* a call of a user goroutine returns: its result is recorded
Return(t, result) ==
    /\ Goto(t, "idle", NoLocals)
    /\ hist' = [hist EXCEPT ![t] = Append(@, result)]

----------------------------------------------------------------------------
(* The runtime: parking and readying goroutines *)

\* mcall(fast_park): the calling goroutine goes from running to waiting
fast_park(t) == gstatus' = [gstatus EXCEPT ![t] = "waiting"]

\* safe_ready(gp) can proceed once gp is waiting, and makes it runnable
CanReady(gp) == gp # NoG /\ gstatus[gp] = "waiting"
safe_ready(gp) == gstatus' = [gstatus EXCEPT ![gp] = "running"]

----------------------------------------------------------------------------
(* Selection: src/selector.go lines 129-160 *)

\* sel.DecrementReferenceCount(): the object goes back to the pool at zero
DecrementReferenceCount(s) ==
    IF selection[s].referenceCount - 1 = 0
      THEN /\ selection' = [selection EXCEPT ![s].referenceCount = 0,
                                             ![s].ThreadPtr = FALSE,
                                             ![s].Data = Zero]
           /\ selectionPool' = selectionPool \cup {s}
           /\ ghost' = [ghost EXCEPT !.released[s] = @ + 1]
      ELSE /\ selection' = [selection EXCEPT ![s].referenceCount = @ - 1]
           /\ UNCHANGED << selectionPool, ghost >>

----------------------------------------------------------------------------
(* ZenQ.Write: src/unnamed/part_010 lines 123-175 *)

\* a check that lets writes into a queue that is closed for writes only
FullyClosedOnly(state) == state > StateClosedForWrites

\* line 124: atomic.LoadUint32(&self.globalState) > StateOpen
ClosedForWrites(state) == state > StateOpen

\* lines 124-127: the queue is not open for writes
Write_checkState(t) ==
    /\ pc[t] = "Write"
    /\ IF ClosedForWrites(globalState[lv[t].q])
         THEN Return(t, Result("Write", lv[t].q, lv[t].value, TRUE))
         ELSE Goto(t, "Write_dequeue", lv[t]) /\ UNCHANGED hist
    /\ UNCHANGED << ringVars, listVars, parkerVars, selectVars, gstatus, todo, ghost >>

\* line 132: self.waitList.Dequeue()
Write_dequeue(t) ==
    /\ pc[t] = "Write_dequeue"
    /\ LET q == lv[t].q IN
         IF waitList[q] = << >>
           THEN /\ Goto(t, "Write_reserve", lv[t])
                /\ UNCHANGED waitList
           ELSE /\ Goto(t, "Write_swap", [lv[t] EXCEPT !.sel = Head(waitList[q])])
                /\ waitList' = [waitList EXCEPT ![q] = Tail(@)]
    /\ UNCHANGED << ringVars, listVars, parkerVars, selState, auxThread, backlog, selection,
                    selsMade, selectionPool, gstatus, todo, hist, ghost >>

\* line 134: atomic.SwapPointer(sel.ThreadPtr, nil)
Write_swap(t) ==
    /\ pc[t] = "Write_swap"
    /\ LET s == lv[t].sel IN
         IF ~ selection[s].ThreadPtr
           THEN Panic /\ UNCHANGED selection
           ELSE /\ selection' = [selection EXCEPT ![s].g = NoG]
                /\ IF selection[s].g # NoG
                     THEN Goto(t, "Write_send", [lv[t] EXCEPT !.thr = selection[s].g])
                     ELSE Goto(t, "Write_dropRef", lv[t])
    /\ ghost' = IF selection[lv[t].sel].ThreadPtr /\ selection[lv[t].sel].g # NoG
                  THEN [ghost EXCEPT !.claims[lv[t].sel] = @ \cup {t}]
                  ELSE ghost
    /\ UNCHANGED << ringVars, listVars, parkerVars, selState, auxThread, backlog, waitList,
                    selsMade, selectionPool, gstatus, todo, hist >>

\* lines 135-143: the claimer writes sel.Data, or signals the closure of the queue
Write_send(t) ==
    /\ pc[t] = "Write_send"
    /\ LET s == lv[t].sel IN
         IF globalState[lv[t].q] = StateFullyClosed
           THEN /\ selection' = [selection EXCEPT ![s].numQueues = @ - 1]
                /\ IF selection[s].numQueues - 1 = 0
                     THEN Goto(t, "Write_ready", lv[t]) /\ UNCHANGED ghost
                     ELSE /\ Goto(t, "Write_decRef", lv[t])
                          /\ ghost' = [ghost EXCEPT !.unwoken[s] = TRUE]
           ELSE /\ selection' = [selection EXCEPT ![s].Data = lv[t].value]
                /\ ghost' = [ghost EXCEPT !.dataWrites[s] = Append(@, t)]
                /\ Goto(t, "Write_ready", lv[t])
    /\ UNCHANGED << ringVars, listVars, parkerVars, selState, auxThread, backlog, waitList,
                    selsMade, selectionPool, gstatus, todo, hist >>

\* lines 137 and 145: safe_ready(selThread)
Write_ready(t) ==
    /\ pc[t] = "Write_ready"
    /\ CanReady(lv[t].thr)
    /\ safe_ready(lv[t].thr)
    /\ ghost' = [ghost EXCEPT !.wakes[lv[t].sel] = Append(@, t)]
    /\ Goto(t, "Write_decRef", lv[t])
    /\ UNCHANGED << ringVars, listVars, parkerVars, selectVars, todo, hist >>

\* lines 139 and 146: sel.DecrementReferenceCount() and return
Write_decRef(t) ==
    /\ pc[t] = "Write_decRef"
    /\ DecrementReferenceCount(lv[t].sel)
    /\ Return(t, Result("Write", lv[t].q, lv[t].value, FALSE))
    /\ UNCHANGED << ringVars, listVars, parkerVars, selState, auxThread, backlog, waitList,
                    selsMade, gstatus, todo >>

\* lines 149-150: the selection was claimed by another queue: drop it, goto direct_send
Write_dropRef(t) ==
    /\ pc[t] = "Write_dropRef"
    /\ DecrementReferenceCount(lv[t].sel)
    /\ Goto(t, "Write_dequeue", [lv[t] EXCEPT !.sel = NilSel])
    /\ UNCHANGED << ringVars, listVars, parkerVars, selState, auxThread, backlog, waitList,
                    selsMade, gstatus, todo, hist >>

\* line 153: atomic.AddUint32(&self.writerIndex, 1) & self.indexMask
Write_reserve(t) ==
    /\ pc[t] = "Write_reserve"
    /\ LET q == lv[t].q
           i == AddUint(writerIndex[q], 1) IN
         /\ writerIndex' = [writerIndex EXCEPT ![q] = i]
         /\ Goto(t, "Write_cas", [lv[t] EXCEPT !.slot = MaskIndex(i, indexMask[q]),
                                               !.idx = i])
         /\ ghost' = [ghost EXCEPT !.indexed = @ \cup {<< q, i, lv[t].value >>}]
    /\ UNCHANGED << readerIndex, globalState, indexMask, listVars, slotState, slotItem,
                    parkerVars, selectVars, gstatus, todo, hist >>

\* a producer that takes its slot with a plain store, whatever the state of the slot
Write_storeBusy(t) ==
    /\ pc[t] = "Write_cas"
    /\ slotState' = [slotState EXCEPT ![lv[t].q][lv[t].slot] = SlotBusy]
    /\ Goto(t, "Write_item", lv[t])
    /\ UNCHANGED << writerIndex, readerIndex, globalState, indexMask, listVars, slotItem,
                    parkerVars, selectVars, gstatus, todo, hist, ghost >>

\* line 156: CompareAndSwap(&slot.State, SlotEmpty, SlotBusy)
Write_cas(t) ==
    /\ pc[t] = "Write_cas"
    /\ LET q == lv[t].q
           i == lv[t].slot IN
         IF slotState[q][i] = SlotEmpty
           THEN /\ slotState' = [slotState EXCEPT ![q][i] = SlotBusy]
                /\ Goto(t, "Write_item", lv[t])
           ELSE /\ Goto(t, "Write_load", lv[t])
                /\ UNCHANGED slotState
    /\ UNCHANGED << writerIndex, readerIndex, globalState, indexMask, listVars, slotItem,
                    parkerVars, selectVars, gstatus, todo, hist, ghost >>

\* the state a Write finds in its slot at line 157 decides where it goes
WriteOnState(state) ==
    CASE state = SlotBusy -> "Write_cas"
      [] state = SlotCommitted -> "Write_alloc"
      [] state = SlotEmpty -> "Write_cas"
      [] state = SlotClosed -> "return"

\* lines 157-170: the switch on atomic.LoadUint32(&slot.State)
Write_load(t) ==
    /\ pc[t] = "Write_load"
    /\ LET to == WriteOnState(slotState[lv[t].q][lv[t].slot]) IN
         IF to = "return"
           THEN Return(t, Result("Write", lv[t].q, lv[t].value, FALSE))
           ELSE Goto(t, to, lv[t]) /\ UNCHANGED hist
    /\ UNCHANGED << ringVars, listVars, parkerVars, selectVars, gstatus, todo, ghost >>

\* lines 161-162: n := self.alloc(); n.threadPtr, n.next, n.value = GetG(), nil, value
Write_alloc(t) ==
    /\ pc[t] = "Write_alloc"
    /\ LET q == lv[t].q IN
       \E n \in parkPool[q] \cup (IF spotsMade < MaxParkSpots THEN {spotsMade + 1} ELSE {}) :
         /\ parkPool' = [parkPool EXCEPT ![q] = @ \ {n}]
         /\ spotsMade' = IF n \in parkPool[q] THEN spotsMade ELSE spotsMade + 1
         /\ spot' = [spot EXCEPT ![n] = [next |-> NilSpot, threadPtr |-> t,
                                         value |-> lv[t].value]]
         /\ Goto(t, "Park_tail", [lv[t] EXCEPT !.n = n])
    /\ UNCHANGED << ringVars, listVars, tpHead, tpTail, selectVars, gstatus, todo, hist, ghost >>

\* line 164: mcall(fast_park)
Write_park(t) ==
    /\ pc[t] = "Write_park"
    /\ fast_park(t)
    /\ Goto(t, "Write_parked", lv[t])
    /\ ghost' = [ghost EXCEPT !.parkedValues = @ \cup {lv[t].value}]
    /\ UNCHANGED << ringVars, listVars, parkerVars, selectVars, todo, hist >>

\* line 165: the producer has been readied and returns
Write_resume(t) ==
    /\ pc[t] = "Write_parked"
    /\ gstatus[t] = "running"
    /\ Return(t, Result("Write", lv[t].q, lv[t].value, FALSE))
    /\ UNCHANGED << ringVars, listVars, parkerVars, selectVars, gstatus, todo, ghost >>

\* line 172: slot.Item = value
Write_item(t) ==
    /\ pc[t] = "Write_item"
    /\ slotItem' = [slotItem EXCEPT ![lv[t].q][lv[t].slot] = lv[t].value]
    /\ Goto(t, "Write_commit", lv[t])
    /\ UNCHANGED << writerIndex, readerIndex, globalState, indexMask, listVars, slotState,
                    parkerVars, selectVars, gstatus, todo, hist, ghost >>

\* line 173: atomic.StoreUint32(&slot.State, SlotCommitted)
Write_commit(t) ==
    /\ pc[t] = "Write_commit"
    /\ slotState' = [slotState EXCEPT ![lv[t].q][lv[t].slot] = SlotCommitted]
    /\ Return(t, Result("Write", lv[t].q, lv[t].value, FALSE))
    /\ UNCHANGED << writerIndex, readerIndex, globalState, indexMask, listVars, slotItem,
                    parkerVars, selectVars, gstatus, todo, ghost >>

----------------------------------------------------------------------------
(* ThreadParker.Park: src/unnamed/part_016 lines 32-48, called at line 163 of Write *)

\* line 35: tail = atomic.LoadPointer(&tp.tail)
Park_tail(t) ==
    /\ pc[t] = "Park_tail"
    /\ Goto(t, "Park_next", [lv[t] EXCEPT !.tail = tpTail[lv[t].q][lv[t].slot]])
    /\ UNCHANGED << ringVars, listVars, parkerVars, selectVars, gstatus, todo, hist, ghost >>

\* line 36: next = atomic.LoadPointer(&tail.next)
Park_next(t) ==
    /\ pc[t] = "Park_next"
    /\ Goto(t, "Park_check", [lv[t] EXCEPT !.next = spot[lv[t].tail].next])
    /\ UNCHANGED << ringVars, listVars, parkerVars, selectVars, gstatus, todo, hist, ghost >>

\* lines 37-38: is tail still the tail, and is it the last node?
Park_check(t) ==
    /\ pc[t] = "Park_check"
    /\ IF lv[t].tail = tpTail[lv[t].q][lv[t].slot]
         THEN IF lv[t].next = NilSpot
                THEN Goto(t, "Park_casNext", lv[t])
                ELSE Goto(t, "Park_swing", lv[t])
         ELSE Goto(t, "Park_tail", lv[t])
    /\ UNCHANGED << ringVars, listVars, parkerVars, selectVars, gstatus, todo, hist, ghost >>

\* line 39: CompareAndSwapPointer(&tail.next, next, nextNode)
Park_casNext(t) ==
    /\ pc[t] = "Park_casNext"
    /\ IF spot[lv[t].tail].next = lv[t].next
         THEN /\ spot' = [spot EXCEPT ![lv[t].tail].next = lv[t].n]
              /\ Goto(t, "Park_casTail", lv[t])
         ELSE /\ Goto(t, "Park_tail", lv[t])
              /\ UNCHANGED spot
    /\ UNCHANGED << ringVars, listVars, tpHead, tpTail, spotsMade, parkPool, selectVars,
                    gstatus, todo, hist, ghost >>

\* line 40: CompareAndSwapPointer(&tp.tail, tail, nextNode), then Park returns
Park_casTail(t) ==
    /\ pc[t] = "Park_casTail"
    /\ LET q == lv[t].q
           i == lv[t].slot IN
         tpTail' = IF tpTail[q][i] = lv[t].tail
                     THEN [tpTail EXCEPT ![q][i] = lv[t].n]
                     ELSE tpTail
    /\ Goto(t, "Write_park", [lv[t] EXCEPT !.tail = NilSpot, !.next = NilSpot,
                                           !.n = NilSpot])
    /\ UNCHANGED << ringVars, listVars, tpHead, spot, spotsMade, parkPool, selectVars,
                    gstatus, todo, hist, ghost >>

\* line 44: tail was not the last node: CompareAndSwapPointer(&tp.tail, tail, next)
Park_swing(t) ==
    /\ pc[t] = "Park_swing"
    /\ LET q == lv[t].q
           i == lv[t].slot IN
         tpTail' = IF tpTail[q][i] = lv[t].tail
                     THEN [tpTail EXCEPT ![q][i] = lv[t].next]
                     ELSE tpTail
    /\ Goto(t, "Park_tail", lv[t])
    /\ UNCHANGED << ringVars, listVars, tpHead, spot, spotsMade, parkPool, selectVars,
                    gstatus, todo, hist, ghost >>

----------------------------------------------------------------------------
(* ZenQ.Read: src/unnamed/part_010 lines 178-214 *)

\* Read returns (data, queueOpen) to its caller: a user goroutine or selectSender
ReadReturn(t, data, queueOpen) ==
    IF lv[t].caller = "aux"
      THEN /\ Goto(t, "Aux_dequeue", [NoLocals EXCEPT !.q = lv[t].q, !.caller = "aux",
                                                     !.readState = TRUE,
                                                     !.auxData = data,
                                                     !.queueOpen = queueOpen])
           /\ UNCHANGED hist
      ELSE IF lv[t].caller \in {"loop", "reset"} /\ queueOpen
             THEN /\ Goto(t, "Read", [NoLocals EXCEPT !.q = lv[t].q,
                                                      !.caller = lv[t].caller])
                  /\ hist' = [hist EXCEPT ![t] = Append(@, Result("Read", lv[t].q, data, TRUE))]
             ELSE IF lv[t].caller = "reset"
                    THEN /\ Goto(t, "Reset_open", [NoLocals EXCEPT !.q = lv[t].q])
                         /\ UNCHANGED hist
                    ELSE Return(t, Result("Read", lv[t].q, data, queueOpen))

\* line 179: atomic.AddUint32(&self.readerIndex, 1) & self.indexMask
Read_reserve(t) ==
    /\ pc[t] = "Read"
    /\ LET q == lv[t].q
           i == AddUint(readerIndex[q], 1) IN
         /\ readerIndex' = [readerIndex EXCEPT ![q] = i]
         /\ Goto(t, "Read_cas", [lv[t] EXCEPT !.slot = MaskIndex(i, indexMask[q]),
                                              !.idx = i])
    /\ UNCHANGED << writerIndex, globalState, indexMask, listVars, slotState, slotItem,
                    parkerVars, selectVars, gstatus, todo, hist, ghost >>

\* line 182: CompareAndSwap(&slot.State, SlotCommitted, SlotBusy)
Read_cas(t) ==
    /\ pc[t] = "Read_cas"
    /\ LET q == lv[t].q
           i == lv[t].slot IN
         IF slotState[q][i] = SlotCommitted
           THEN /\ slotState' = [slotState EXCEPT ![q][i] = SlotBusy]
                /\ Goto(t, "Read_item", lv[t])
           ELSE /\ Goto(t, "Read_load", lv[t])
                /\ UNCHANGED slotState
    /\ UNCHANGED << writerIndex, readerIndex, globalState, indexMask, listVars, slotItem,
                    parkerVars, selectVars, gstatus, todo, hist, ghost >>

\* the state a Read finds in its slot at line 183 decides where it goes
ReadOnState(state) ==
    CASE state = SlotBusy -> "Read_cas"
      [] state = SlotEmpty -> "Ready_head"
      [] state = SlotClosed -> "Read_casClosed"
      [] state = SlotCommitted -> "Read_cas"

\* lines 183-208: the switch on atomic.LoadUint32(&slot.State); on SlotEmpty the
\* results of Ready() start at their zero values
Read_load(t) ==
    /\ pc[t] = "Read_load"
    /\ Goto(t, ReadOnState(slotState[lv[t].q][lv[t].slot]),
            [lv[t] EXCEPT !.data = Zero, !.ok = FALSE, !.freeable = NilSpot])
    /\ UNCHANGED << ringVars, listVars, parkerVars, selectVars, gstatus, todo, hist, ghost >>

\* lines 188-194: Ready() has returned: free the spot and return, or look at globalState
Read_afterReady(t) ==
    /\ pc[t] = "Read_afterReady"
    /\ IF lv[t].ok
         THEN /\ parkPool' = IF lv[t].freeable # NilSpot
                               THEN [parkPool EXCEPT ![lv[t].q] = @ \cup {lv[t].freeable}]
                               ELSE parkPool
              /\ ReadReturn(t, lv[t].data, TRUE)
         ELSE /\ IF globalState[lv[t].q] # StateFullyClosed
                   THEN Goto(t, "Read_cas", lv[t])
                   ELSE Goto(t, "Read_rollback", lv[t])
              /\ UNCHANGED << parkPool, hist >>
    /\ UNCHANGED << ringVars, listVars, tpHead, tpTail, spot, spotsMade, selectVars, gstatus,
                    todo, ghost >>

\* a Read that gives back two indexes: it adds math.MaxUint32 - 1
Read_rollbackTwo(t) ==
    /\ pc[t] = "Read_rollback"
    /\ readerIndex' = [readerIndex EXCEPT ![lv[t].q] = AddUint(@, IndexModulus - 2)]
    /\ ReadReturn(t, lv[t].data, FALSE)
    /\ UNCHANGED << writerIndex, globalState, indexMask, listVars, slotState, slotItem,
                    parkerVars, selectVars, gstatus, todo, ghost >>

\* lines 197-199: atomic.AddUint32(&self.readerIndex, math.MaxUint32), return closed
Read_rollback(t) ==
    /\ pc[t] = "Read_rollback"
    /\ readerIndex' = [readerIndex EXCEPT ![lv[t].q] = AddUint(@, MaxUint)]
    /\ ReadReturn(t, lv[t].data, FALSE)
    /\ UNCHANGED << writerIndex, globalState, indexMask, listVars, slotState, slotItem,
                    parkerVars, selectVars, gstatus, todo, ghost >>

\* lines 202, 205-206: CompareAndSwap(&slot.State, SlotClosed, SlotEmpty)
Read_casClosed(t) ==
    /\ pc[t] = "Read_casClosed"
    /\ LET q == lv[t].q
           i == lv[t].slot IN
         IF slotState[q][i] = SlotClosed
           THEN /\ slotState' = [slotState EXCEPT ![q][i] = SlotEmpty]
                /\ Goto(t, "Read_fullyClosed", lv[t])
                /\ UNCHANGED hist
           ELSE /\ ReadReturn(t, lv[t].data, FALSE)
                /\ UNCHANGED slotState
    /\ UNCHANGED << writerIndex, readerIndex, globalState, indexMask, listVars, slotItem,
                    parkerVars, selectVars, gstatus, todo, ghost >>

\* lines 203, 205-206: atomic.StoreUint32(&self.globalState, StateFullyClosed)
Read_fullyClosed(t) ==
    /\ pc[t] = "Read_fullyClosed"
    /\ globalState' = [globalState EXCEPT ![lv[t].q] = StateFullyClosed]
    /\ ReadReturn(t, lv[t].data, FALSE)
    /\ UNCHANGED << writerIndex, readerIndex, indexMask, listVars, slotState, slotItem,
                    parkerVars, selectVars, gstatus, todo, ghost >>

\* line 211: data, queueOpen = slot.Item, true
Read_item(t) ==
    /\ pc[t] = "Read_item"
    /\ Goto(t, "Read_empty", [lv[t] EXCEPT !.data = slotItem[lv[t].q][lv[t].slot],
                                           !.ok = TRUE])
    /\ UNCHANGED << ringVars, listVars, parkerVars, selectVars, gstatus, todo, hist, ghost >>

\* a consumer that leaves its slot closed instead of empty
Read_emptyToClosed(t) ==
    /\ pc[t] = "Read_empty"
    /\ slotState' = [slotState EXCEPT ![lv[t].q][lv[t].slot] = SlotClosed]
    /\ ReadReturn(t, lv[t].data, TRUE)
    /\ UNCHANGED << writerIndex, readerIndex, globalState, indexMask, listVars, slotItem,
                    parkerVars, selectVars, gstatus, todo, ghost >>

\* a Read that returns its value and leaves its slot in state SlotBusy
Read_emptyNever(t) ==
    /\ pc[t] = "Read_empty"
    /\ ReadReturn(t, lv[t].data, TRUE)
    /\ UNCHANGED << ringVars, listVars, parkerVars, selectVars, gstatus, todo, ghost >>

\* lines 212-213: atomic.StoreUint32(&slot.State, SlotEmpty)
Read_empty(t) ==
    /\ pc[t] = "Read_empty"
    /\ slotState' = [slotState EXCEPT ![lv[t].q][lv[t].slot] = SlotEmpty]
    /\ ReadReturn(t, lv[t].data, TRUE)
    /\ UNCHANGED << writerIndex, readerIndex, globalState, indexMask, listVars, slotItem,
                    parkerVars, selectVars, gstatus, todo, ghost >>

----------------------------------------------------------------------------
(* ThreadParker.Ready: src/unnamed/part_016 lines 50-74, called at line 188 of Read *)

\* line 54: head = atomic.LoadPointer(&tp.head)
Ready_head(t) ==
    /\ pc[t] = "Ready_head"
    /\ Goto(t, "Ready_tail", [lv[t] EXCEPT !.head = tpHead[lv[t].q][lv[t].slot]])
    /\ UNCHANGED << ringVars, listVars, parkerVars, selectVars, gstatus, todo, hist, ghost >>

\* line 55: tail = atomic.LoadPointer(&tp.tail)
Ready_tail(t) ==
    /\ pc[t] = "Ready_tail"
    /\ Goto(t, "Ready_next", [lv[t] EXCEPT !.tail = tpTail[lv[t].q][lv[t].slot]])
    /\ UNCHANGED << ringVars, listVars, parkerVars, selectVars, gstatus, todo, hist, ghost >>

\* line 56: next = atomic.LoadPointer(&head.next)
Ready_next(t) ==
    /\ pc[t] = "Ready_next"
    /\ Goto(t, "Ready_check", [lv[t] EXCEPT !.next = spot[lv[t].head].next])
    /\ UNCHANGED << ringVars, listVars, parkerVars, selectVars, gstatus, todo, hist, ghost >>

\* lines 57-60: is head still the head?  An empty list makes Ready return its
\* named results as they stand: (data, ok, freeable)
Ready_check(t) ==
    /\ pc[t] = "Ready_check"
    /\ IF lv[t].head = tpHead[lv[t].q][lv[t].slot]
         THEN IF lv[t].head = lv[t].tail
                THEN IF lv[t].next = NilSpot
                       THEN Goto(t, "Read_afterReady",
                                 [lv[t] EXCEPT !.head = NilSpot, !.tail = NilSpot,
                                               !.next = NilSpot, !.thr = NoG])
                       ELSE Goto(t, "Ready_swing", lv[t])
                ELSE Goto(t, "Ready_thread", lv[t])
         ELSE Goto(t, "Ready_head", lv[t])
    /\ UNCHANGED << ringVars, listVars, parkerVars, selectVars, gstatus, todo, hist, ghost >>

\* line 62: tail is falling behind: CompareAndSwapPointer(&tp.tail, tail, next)
Ready_swing(t) ==
    /\ pc[t] = "Ready_swing"
    /\ LET q == lv[t].q
           i == lv[t].slot IN
         tpTail' = IF tpTail[q][i] = lv[t].tail
                     THEN [tpTail EXCEPT ![q][i] = lv[t].next]
                     ELSE tpTail
    /\ Goto(t, "Ready_head", lv[t])
    /\ UNCHANGED << ringVars, listVars, tpHead, spot, spotsMade, parkPool, selectVars,
                    gstatus, todo, hist, ghost >>

\* line 64: the argument of safe_ready: (*parkSpot[T])(next).threadPtr; a nil next
\* is a nil pointer dereference and a nil g crashes the program
Ready_thread(t) ==
    /\ pc[t] = "Ready_thread"
    /\ IF lv[t].next = NilSpot \/ spot[lv[t].next].threadPtr = NoG
         THEN Panic
         ELSE Goto(t, "Ready_ready", [lv[t] EXCEPT !.thr = spot[lv[t].next].threadPtr])
    /\ UNCHANGED << ringVars, listVars, parkerVars, selectVars, gstatus, todo, hist, ghost >>

\* line 64: safe_ready(next.threadPtr)
Ready_ready(t) ==
    /\ pc[t] = "Ready_ready"
    /\ CanReady(lv[t].thr)
    /\ safe_ready(lv[t].thr)
    /\ ghost' = [ghost EXCEPT !.parkWakes[lv[t].thr] = @ + 1]
    /\ Goto(t, "Ready_value", lv[t])
    /\ UNCHANGED << ringVars, listVars, parkerVars, selectVars, todo, hist >>

\* line 65: data, ok = next.value, true
Ready_value(t) ==
    /\ pc[t] = "Ready_value"
    /\ Goto(t, "Ready_casHead", [lv[t] EXCEPT !.data = spot[lv[t].next].value,
                                              !.ok = TRUE])
    /\ UNCHANGED << ringVars, listVars, parkerVars, selectVars, gstatus, todo, hist, ghost >>

\* lines 66-67: CompareAndSwapPointer(&tp.head, head, next); freeable = head
Ready_casHead(t) ==
    /\ pc[t] = "Ready_casHead"
    /\ LET q == lv[t].q
           i == lv[t].slot IN
         IF tpHead[q][i] = lv[t].head
           THEN /\ tpHead' = [tpHead EXCEPT ![q][i] = lv[t].next]
                /\ Goto(t, "Ready_clear", [lv[t] EXCEPT !.freeable = lv[t].head])
           ELSE /\ Goto(t, "Ready_head", lv[t])
                /\ UNCHANGED tpHead
    /\ UNCHANGED << ringVars, listVars, tpTail, spot, spotsMade, parkPool, selectVars,
                    gstatus, todo, hist, ghost >>

\* lines 68-69: freeable.next, freeable.threadPtr = nil, nil; return
Ready_clear(t) ==
    /\ pc[t] = "Ready_clear"
    /\ spot' = [spot EXCEPT ![lv[t].freeable].next = NilSpot,
                            ![lv[t].freeable].threadPtr = NoG]
    /\ Goto(t, "Read_afterReady", [lv[t] EXCEPT !.head = NilSpot, !.tail = NilSpot,
                                                !.next = NilSpot, !.thr = NoG])
    /\ UNCHANGED << ringVars, listVars, tpHead, tpTail, spotsMade, parkPool, selectVars,
                    gstatus, todo, hist, ghost >>

----------------------------------------------------------------------------
(* ZenQ.Close: src/unnamed/part_010 lines 222-244 *)

\* line 224: CompareAndSwapUint32(&self.globalState, StateOpen, StateClosedForWrites)
Close_cas(t) ==
    /\ pc[t] = "Close"
    /\ IF globalState[lv[t].q] = StateOpen
         THEN /\ globalState' = [globalState EXCEPT ![lv[t].q] = StateClosedForWrites]
              /\ Goto(t, "Close_reserve", lv[t])
              /\ UNCHANGED hist
         ELSE /\ Return(t, Result("Close", lv[t].q, Zero, TRUE))
              /\ UNCHANGED globalState
    /\ UNCHANGED << writerIndex, readerIndex, indexMask, listVars, slotState, slotItem,
                    parkerVars, selectVars, gstatus, todo, ghost >>

\* line 228: atomic.AddUint32(&self.writerIndex, 1) & self.indexMask
Close_reserve(t) ==
    /\ pc[t] = "Close_reserve"
    /\ LET q == lv[t].q
           i == AddUint(writerIndex[q], 1) IN
         /\ writerIndex' = [writerIndex EXCEPT ![q] = i]
         /\ Goto(t, "Close_casSlot", [lv[t] EXCEPT !.slot = MaskIndex(i, indexMask[q])])
    /\ ghost' = [ghost EXCEPT !.closeReserved[lv[t].q] = @ + 1]
    /\ UNCHANGED << readerIndex, globalState, indexMask, listVars, slotState, slotItem,
                    parkerVars, selectVars, gstatus, todo, hist >>

\* line 231: CompareAndSwap(&slot.State, SlotEmpty, SlotBusy)
Close_casSlot(t) ==
    /\ pc[t] = "Close_casSlot"
    /\ LET q == lv[t].q
           i == lv[t].slot IN
         IF slotState[q][i] = SlotEmpty
           THEN /\ slotState' = [slotState EXCEPT ![q][i] = SlotBusy]
                /\ Goto(t, "Close_commit", lv[t])
           ELSE /\ Goto(t, "Close_load", lv[t])
                /\ UNCHANGED slotState
    /\ UNCHANGED << writerIndex, readerIndex, globalState, indexMask, listVars, slotItem,
                    parkerVars, selectVars, gstatus, todo, hist, ghost >>

\* the state a Close finds in its slot at line 232 decides where it goes
CloseOnState(state) ==
    CASE state = SlotBusy -> "Close_casSlot"
      [] state = SlotCommitted -> "Close_casSlot"
      [] state = SlotEmpty -> "Close_casSlot"
      [] state = SlotClosed -> "return"

\* lines 232-239: the switch on atomic.LoadUint32(&slot.State)
Close_load(t) ==
    /\ pc[t] = "Close_load"
    /\ LET to == CloseOnState(slotState[lv[t].q][lv[t].slot]) IN
         IF to = "return"
           THEN Return(t, Result("Close", lv[t].q, Zero, FALSE))
           ELSE Goto(t, to, lv[t]) /\ UNCHANGED hist
    /\ UNCHANGED << ringVars, listVars, parkerVars, selectVars, gstatus, todo, ghost >>

\* lines 242-243: atomic.StoreUint32(&slot.State, SlotClosed)
Close_commit(t) ==
    /\ pc[t] = "Close_commit"
    /\ slotState' = [slotState EXCEPT ![lv[t].q][lv[t].slot] = SlotClosed]
    /\ ghost' = [ghost EXCEPT !.closedStores[lv[t].q] = @ + 1]
    /\ Return(t, Result("Close", lv[t].q, Zero, FALSE))
    /\ UNCHANGED << writerIndex, readerIndex, globalState, indexMask, listVars, slotItem,
                    parkerVars, selectVars, gstatus, todo >>

----------------------------------------------------------------------------
(* ZenQ.Close of src/zenq.go, lines 332-338; from line 339 on it is the Close above *)

\* line 334: Load8(&self.globalState) != StateOpen
Close_load8(t) ==
    /\ pc[t] = "Close8"
    /\ IF globalState[lv[t].q] # StateOpen
         THEN Return(t, Result("Close", lv[t].q, Zero, TRUE))
         ELSE Goto(t, "Close_store8", lv[t]) /\ UNCHANGED hist
    /\ UNCHANGED << ringVars, listVars, parkerVars, selectVars, gstatus, todo, ghost >>

\* line 338: Store8(&self.globalState, StateClosedForWrites)
Close_store8(t) ==
    /\ pc[t] = "Close_store8"
    /\ globalState' = [globalState EXCEPT ![lv[t].q] = StateClosedForWrites]
    /\ Goto(t, "Close_reserve", lv[t])
    /\ UNCHANGED << writerIndex, readerIndex, indexMask, listVars, slotState, slotItem,
                    parkerVars, selectVars, gstatus, todo, hist, ghost >>

----------------------------------------------------------------------------
(* ZenQ.Reset: src/unnamed/part_010 lines 283-290, with CloseAsync, lines 248-250 *)

\* lines 285-287: self.CloseAsync() starts a goroutine that runs self.Close(), here
\* the goroutine k2; then the drain loop makes its first call of self.Read()
Reset_closeAsync(t) ==
    /\ pc[t] = "Reset"
    /\ pc["k2"] = "idle"
    /\ pc' = [pc EXCEPT ![t] = "Read", !["k2"] = "Close"]
    /\ lv' = [lv EXCEPT ![t] = [NoLocals EXCEPT !.q = lv[t].q, !.caller = "reset"],
                        !["k2"] = [NoLocals EXCEPT !.q = lv[t].q]]
    /\ UNCHANGED << ringVars, listVars, parkerVars, selectVars, gstatus, todo, hist, ghost >>

\* line 289: atomic.StoreUint32(&self.globalState, StateOpen)
Reset_open(t) ==
    /\ pc[t] = "Reset_open"
    /\ globalState' = [globalState EXCEPT ![lv[t].q] = StateOpen]
    /\ Return(t, Result("Reset", lv[t].q, Zero, TRUE))
    /\ UNCHANGED << writerIndex, readerIndex, indexMask, listVars, slotState, slotItem,
                    parkerVars, selectVars, gstatus, todo, ghost >>

----------------------------------------------------------------------------
(* Select: src/selector.go lines 172-232 *)

\* line 176: streams[idx] == nil || streams[idx].IsClosed(); idx counts from 0
StreamClosed(streams, idx) ==
    streams[idx + 1] = 0 \/ globalState[streams[idx + 1]] = StateFullyClosed

\* lines 177-178: numStreams steps down over the nil and closed streams at the end
RECURSIVE SkipClosedTail(_, _)
SkipClosedTail(streams, numStreams) ==
    IF numStreams >= 0 /\ StreamClosed(streams, numStreams)
      THEN SkipClosedTail(streams, numStreams - 1)
      ELSE numStreams

\* lines 174-185: the loop filter_shuffle, from idx on; line 182 swaps
\* streams[idx] and streams[numStreams]
RECURSIVE FilterShuffle(_, _, _)
FilterShuffle(streams, idx, numStreams) ==
    IF idx < numStreams
      THEN IF StreamClosed(streams, idx)
             THEN LET last == SkipClosedTail(streams, numStreams) IN
                    IF idx >= last
                      THEN [streams |-> streams, numStreams |-> last]
                      ELSE FilterShuffle([streams EXCEPT ![idx + 1] = streams[last + 1],
                                                         ![last + 1] = streams[idx + 1]],
                                         idx + 1, last - 1)
             ELSE FilterShuffle(streams, idx + 1, numStreams)
      ELSE [streams |-> streams, numStreams |-> numStreams]

\* lines 173-189: filter the streams; with no stream left Select returns (nil, false)
Select_filter(t) ==
    /\ pc[t] = "Select"
    /\ LET f == FilterShuffle(lv[t].streams, 0, Len(lv[t].streams) - 1) IN
         IF f.numStreams < 0
           THEN Return(t, Result("Select", 0, Zero, FALSE))
           ELSE /\ Goto(t, "Select_backlog", [lv[t] EXCEPT !.streams = f.streams,
                                                          !.numStreams = f.numStreams,
                                                          !.idx = 0])
                /\ UNCHANGED hist
    /\ UNCHANGED << ringVars, listVars, parkerVars, selectVars, gstatus, todo, ghost >>

\* lines 191-195 with ReadFromBackLog, part_010 lines 255-260:
\* atomic.SwapPointer(&self.backlog, nil)
Select_backlog(t) ==
    /\ pc[t] = "Select_backlog"
    /\ LET q == lv[t].streams[lv[t].idx + 1] IN
         IF q = 0
           THEN Panic /\ UNCHANGED << backlog, hist >>
           ELSE /\ backlog' = [backlog EXCEPT ![q] = Zero]
                /\ IF backlog[q] # Zero
                     THEN Return(t, Result("Select", 0, backlog[q], TRUE))
                     ELSE /\ Goto(t, IF lv[t].idx + 1 <= lv[t].numStreams
                                       THEN "Select_backlog" ELSE "Select_get",
                                  [lv[t] EXCEPT !.idx = @ + 1])
                          /\ UNCHANGED hist
    /\ UNCHANGED << ringVars, listVars, parkerVars, selState, auxThread, waitList, selection,
                    selsMade, selectionPool, gstatus, todo, ghost >>

\* lines 197-199: sel := selectionGet(); its fields are set for this selection
Select_get(t) ==
    /\ pc[t] = "Select_get"
    /\ \E s \in selectionPool \cup
                 (IF selsMade < MaxSelections THEN {selsMade + 1} ELSE {}) :
         /\ selectionPool' = selectionPool \ {s}
         /\ selsMade' = IF s \in selectionPool THEN selsMade ELSE selsMade + 1
         /\ selection' = [selection EXCEPT ![s] =
                             [ThreadPtr |-> TRUE, g |-> t, Data |-> Zero,
                              numQueues |-> lv[t].numStreams + 1,
                              referenceCount |-> lv[t].numStreams + 2]]
         /\ ghost' = [ghost EXCEPT !.claims[s] = {}, !.dataWrites[s] = << >>,
                                   !.wakes[s] = << >>, !.unwoken[s] = FALSE]
         /\ Goto(t, "Select_enqueue", [lv[t] EXCEPT !.sel = s, !.idx = 0])
    /\ UNCHANGED << ringVars, listVars, parkerVars, selState, auxThread, backlog, waitList,
                    gstatus, todo, hist >>

\* lines 201-203 with EnqueueSelector, part_010 lines 272-274: waitList.Enqueue(sel)
Select_enqueue(t) ==
    /\ pc[t] = "Select_enqueue"
    /\ waitList' = [waitList EXCEPT ![lv[t].streams[lv[t].idx + 1]] =
                                       Append(@, lv[t].sel)]
    /\ Goto(t, IF lv[t].idx + 1 <= lv[t].numStreams
                 THEN "Select_enqueue" ELSE "Select_signal",
            [lv[t] EXCEPT !.idx = IF @ + 1 <= lv[t].numStreams THEN @ + 1 ELSE 0])
    /\ UNCHANGED << ringVars, listVars, parkerVars, selState, auxThread, backlog, selection,
                    selsMade, selectionPool, gstatus, todo, hist, ghost >>

\* where Select goes after the Signal of streams[idx]
AfterSignal(t, numSignals) ==
    Goto(t, IF lv[t].idx + 1 <= lv[t].numStreams THEN "Select_signal" ELSE "Select_check",
         [lv[t] EXCEPT !.idx = @ + 1, !.numSignals = numSignals])

\* a Signal that stores SelectionRunning and wakes selectSender whatever the state
Select_signalAlways(t) ==
    /\ pc[t] = "Select_signal"
    /\ selState' = [selState EXCEPT ![lv[t].streams[lv[t].idx + 1]] = SelectionRunning]
    /\ Goto(t, "Select_readyAux", lv[t])
    /\ UNCHANGED << ringVars, listVars, parkerVars, auxThread, backlog, waitList, selection,
                    selsMade, selectionPool, gstatus, todo, hist, ghost >>

\* line 207 with Signal, part_010 line 264:
\* CompareAndSwapUint32(&self.state, SelectionOpen, SelectionRunning)
Select_signal(t) ==
    /\ pc[t] = "Select_signal"
    /\ LET q == lv[t].streams[lv[t].idx + 1] IN
         IF selState[q] = SelectionOpen
           THEN /\ selState' = [selState EXCEPT ![q] = SelectionRunning]
                /\ IF auxThread[q] = NoG
                     THEN Panic
                     ELSE Goto(t, "Select_readyAux", lv[t])
           ELSE /\ AfterSignal(t, lv[t].numSignals)
                /\ UNCHANGED selState
    /\ UNCHANGED << ringVars, listVars, parkerVars, auxThread, backlog, waitList, selection,
                    selsMade, selectionPool, gstatus, todo, hist, ghost >>

\* part_010 lines 267-268: safe_ready(self.auxThread); return 1
Select_readyAux(t) ==
    /\ pc[t] = "Select_readyAux"
    /\ CanReady(auxThread[lv[t].streams[lv[t].idx + 1]])
    /\ safe_ready(auxThread[lv[t].streams[lv[t].idx + 1]])
    /\ AfterSignal(t, Min(lv[t].numSignals + 1, 1))
    /\ UNCHANGED << ringVars, listVars, parkerVars, selectVars, todo, hist, ghost >>

\* a Select that parks after its signal loop without looking at numSignals or g
Select_checkNoRetry(t) ==
    /\ pc[t] = "Select_check"
    /\ Goto(t, "Select_park", lv[t])
    /\ UNCHANGED << ringVars, listVars, parkerVars, selectVars, gstatus, todo, hist, ghost >>

\* line 211: numSignals == 0 && atomic.LoadPointer(&g) != nil
Select_check(t) ==
    /\ pc[t] = "Select_check"
    /\ IF lv[t].numSignals = 0 /\ selection[lv[t].sel].g # NoG
         THEN Goto(t, "Select_recheck", lv[t])
         ELSE Goto(t, "Select_park", lv[t])
    /\ UNCHANGED << ringVars, listVars, parkerVars, selectVars, gstatus, todo, hist, ghost >>

\* lines 213-223: after the spin or the yield, atomic.LoadPointer(&g) != nil: goto retry
Select_recheck(t) ==
    /\ pc[t] = "Select_recheck"
    /\ IF selection[lv[t].sel].g # NoG
         THEN Goto(t, "Select_signal", [lv[t] EXCEPT !.idx = 0])
         ELSE Goto(t, "Select_park", lv[t])
    /\ UNCHANGED << ringVars, listVars, parkerVars, selectVars, gstatus, todo, hist, ghost >>

\* line 227: mcall(fast_park)
Select_park(t) ==
    /\ pc[t] = "Select_park"
    /\ fast_park(t)
    /\ Goto(t, "Select_parked", lv[t])
    /\ UNCHANGED << ringVars, listVars, parkerVars, selectVars, todo, hist, ghost >>

\* line 229: data, ok = sel.Data, !sel.AllQueuesClosed()
Select_wake(t) ==
    /\ pc[t] = "Select_parked"
    /\ gstatus[t] = "running"
    /\ Goto(t, "Select_decRef", [lv[t] EXCEPT !.data = selection[lv[t].sel].Data,
                                              !.ok = selection[lv[t].sel].numQueues # 0])
    /\ UNCHANGED << ringVars, listVars, parkerVars, selectVars, gstatus, todo, hist, ghost >>

\* lines 230-231: sel.DecrementReferenceCount(); return
Select_decRef(t) ==
    /\ pc[t] = "Select_decRef"
    /\ DecrementReferenceCount(lv[t].sel)
    /\ Return(t, Result("Select", 0, lv[t].data, lv[t].ok))
    /\ UNCHANGED << ringVars, listVars, parkerVars, selState, auxThread, backlog, waitList,
                    selsMade, gstatus, todo >>

----------------------------------------------------------------------------
(* ZenQ.selectSender: src/unnamed/part_010 lines 305-362 *)

\* line 316: mcall(fast_park)
\* line 306: atomic.StorePointer(&self.auxThread, GetG()), the first statement of the
\* goroutine that line 114 of New starts
Aux_start(t) ==
    /\ pc[t] = "Aux_start"
    /\ auxThread' = [auxThread EXCEPT ![lv[t].q] = t]
    /\ Goto(t, "Aux_park", lv[t])
    /\ UNCHANGED << ringVars, listVars, parkerVars, selState, backlog, waitList, selection,
                    selsMade, selectionPool, gstatus, todo, hist, ghost >>

Aux_park(t) ==
    /\ pc[t] = "Aux_park"
    /\ fast_park(t)
    /\ Goto(t, "Aux_parked", lv[t])
    /\ UNCHANGED << ringVars, listVars, parkerVars, selectVars, todo, hist, ghost >>

\* a selectSender that calls self.Read() on every wake, with a value in hand or not
Aux_resumeAndRead(t) ==
    /\ pc[t] = "Aux_parked"
    /\ gstatus[t] = "running"
    /\ Goto(t, "Read", lv[t])
    /\ UNCHANGED << ringVars, listVars, parkerVars, selectVars, gstatus, todo, hist, ghost >>

\* lines 317-320: readied by a Signal; without a value in hand, self.Read()
Aux_resume(t) ==
    /\ pc[t] = "Aux_parked"
    /\ gstatus[t] = "running"
    /\ Goto(t, IF lv[t].readState THEN "Aux_dequeue" ELSE "Read", lv[t])
    /\ UNCHANGED << ringVars, listVars, parkerVars, selectVars, gstatus, todo, hist, ghost >>

\* line 326: sel = self.waitList.Dequeue()
Aux_dequeue(t) ==
    /\ pc[t] = "Aux_dequeue"
    /\ LET q == lv[t].q IN
         IF waitList[q] = << >>
           THEN /\ Goto(t, "Aux_backlog", [lv[t] EXCEPT !.sel = NilSel, !.thr = NoG])
                /\ UNCHANGED waitList
           ELSE /\ Goto(t, "Aux_swap", [lv[t] EXCEPT !.sel = Head(waitList[q]),
                                                     !.thr = NoG])
                /\ waitList' = [waitList EXCEPT ![q] = Tail(@)]
    /\ UNCHANGED << ringVars, listVars, parkerVars, selState, auxThread, backlog, selection,
                    selsMade, selectionPool, gstatus, todo, hist, ghost >>

\* line 327: threadPtr = atomic.SwapPointer(sel.ThreadPtr, nil)
Aux_swap(t) ==
    /\ pc[t] = "Aux_swap"
    /\ LET s == lv[t].sel IN
         IF ~ selection[s].ThreadPtr
           THEN Panic /\ UNCHANGED << selection, ghost >>
           ELSE /\ selection' = [selection EXCEPT ![s].g = NoG]
                /\ Goto(t, IF selection[s].g # NoG THEN "Aux_send" ELSE "Aux_decRef",
                        [lv[t] EXCEPT !.thr = selection[s].g])
                /\ ghost' = IF selection[s].g # NoG
                              THEN [ghost EXCEPT !.claims[s] = @ \cup {t}]
                              ELSE ghost
    /\ UNCHANGED << ringVars, listVars, parkerVars, selState, auxThread, backlog, waitList,
                    selsMade, selectionPool, gstatus, todo, hist >>

\* lines 329-340: the claimer signals the closure of its queue (SignalQueueClosure)
\* or writes sel.Data
Aux_send(t) ==
    /\ pc[t] = "Aux_send"
    /\ LET s == lv[t].sel IN
         IF ~ lv[t].queueOpen
           THEN /\ selection' = [selection EXCEPT ![s].numQueues = @ - 1]
                /\ IF selection[s].numQueues - 1 = 0
                     THEN Goto(t, "Aux_ready", lv[t]) /\ UNCHANGED ghost
                     ELSE /\ Goto(t, "Aux_decRef", lv[t])
                          /\ ghost' = [ghost EXCEPT !.unwoken[s] = TRUE]
           ELSE /\ selection' = [selection EXCEPT ![s].Data = lv[t].auxData]
                /\ ghost' = [ghost EXCEPT !.dataWrites[s] = Append(@, t)]
                /\ Goto(t, "Aux_ready", lv[t])
    /\ UNCHANGED << ringVars, listVars, parkerVars, selState, auxThread, backlog, waitList,
                    selsMade, selectionPool, gstatus, todo, hist >>

\* lines 333 and 342-343: safe_ready(threadPtr); after a value, readState = false
Aux_ready(t) ==
    /\ pc[t] = "Aux_ready"
    /\ CanReady(lv[t].thr)
    /\ safe_ready(lv[t].thr)
    /\ ghost' = [ghost EXCEPT !.wakes[lv[t].sel] = Append(@, t)]
    /\ Goto(t, "Aux_decRef", [lv[t] EXCEPT !.readState = ~ lv[t].queueOpen])
    /\ UNCHANGED << ringVars, listVars, parkerVars, selectVars, todo, hist >>

\* lines 336-337, 344-345 and 347-348: sel.DecrementReferenceCount(); after a value
\* was sent break selector_dequeue, otherwise continue
Aux_decRef(t) ==
    /\ pc[t] = "Aux_decRef"
    /\ DecrementReferenceCount(lv[t].sel)
    /\ Goto(t, IF lv[t].thr # NoG /\ lv[t].queueOpen THEN "Aux_backlog" ELSE "Aux_dequeue",
            lv[t])
    /\ UNCHANGED << ringVars, listVars, parkerVars, selState, auxThread, backlog, waitList,
                    selsMade, gstatus, todo, hist >>

\* lines 356-359: atomic.StorePointer(&self.backlog, unsafe.Pointer(&i))
Aux_backlog(t) ==
    /\ pc[t] = "Aux_backlog"
    /\ backlog' = IF lv[t].readState /\ lv[t].queueOpen
                    THEN [backlog EXCEPT ![lv[t].q] = lv[t].auxData]
                    ELSE backlog
    /\ Goto(t, "Aux_open", lv[t])
    /\ UNCHANGED << ringVars, listVars, parkerVars, selState, auxThread, waitList, selection,
                    selsMade, selectionPool, gstatus, todo, hist, ghost >>

\* line 360: atomic.StoreUint32(&self.state, SelectionOpen)
Aux_open(t) ==
    /\ pc[t] = "Aux_open"
    /\ selState' = [selState EXCEPT ![lv[t].q] = SelectionOpen]
    /\ Goto(t, "Aux_park", lv[t])
    /\ UNCHANGED << ringVars, listVars, parkerVars, auxThread, backlog, waitList, selection,
                    selsMade, selectionPool, gstatus, todo, hist, ghost >>

----------------------------------------------------------------------------
(* New: src/unnamed/part_010 lines 95-118, and the programs of the goroutines *)

WriteCall(q, v) ==
    [op |-> "Write", entry |-> "Write", q |-> q, value |-> v, streams |-> << >>,
     caller |-> "user", join |-> FALSE]
ReadCall(q) ==
    [op |-> "Read", entry |-> "Read", q |-> q, value |-> Zero, streams |-> << >>,
     caller |-> "user", join |-> FALSE]
SelectCall(streams) ==
    [op |-> "Select", entry |-> "Select", q |-> 0, value |-> Zero, streams |-> streams,
     caller |-> "user", join |-> FALSE]
CloseCall(q) ==
    [op |-> "Close", entry |-> "Close", q |-> q, value |-> Zero, streams |-> << >>,
     caller |-> "user", join |-> FALSE]
ResetCall(q) == [CloseCall(q) EXCEPT !.op = "Reset", !.entry = "Reset"]
\* Close as src/zenq.go has it
Close8Call(q) == [CloseCall(q) EXCEPT !.entry = "Close8"]
\* for { _, open := q.Read(); if !open { break } }
ReadLoop(q) == [ReadCall(q) EXCEPT !.caller = "loop"]
\* wg.Wait() for the producers, then q.Close()
JoinClose(q) == [CloseCall(q) EXCEPT !.join = TRUE]

\* n Read calls on queue q
RECURSIVE Reads(_, _)
Reads(q, n) == IF n = 0 THEN << >> ELSE << ReadCall(q) >> \o Reads(q, n - 1)

\* Write calls on queue q of the values from, from + 1, ..., to
RECURSIVE Writes(_, _, _)
Writes(q, from, to) ==
    IF from > to THEN << >> ELSE << WriteCall(q, from) >> \o Writes(q, from + 1, to)

\* line 97: queueSize = nextGreaterPowerOf2(size)
Capacity(size) == nextGreaterPowerOf2(size)

\* the parkSpot New() takes from the empty pool for the WriteParker of slot i of queue q
Sentinel(sizes, q, i) == (IF q = 1 THEN 0 ELSE Capacity(sizes[1])) + i + 1

\* the state when New(sizes[q]) has returned for every queue; auxPc is where the
\* queue's selectSender goroutine is at that moment
New(sizes, programs, auxPc) ==
    /\ writerIndex = [q \in Queues |-> 0]
    /\ readerIndex = [q \in Queues |-> 0]
    /\ globalState = [q \in Queues |-> StateOpen]
    /\ indexMask = [q \in Queues |-> Capacity(sizes[q]) - 1]
    /\ slotState = [q \in Queues |-> [i \in SlotIds |-> SlotEmpty]]
    /\ slotItem = [q \in Queues |-> [i \in SlotIds |-> Zero]]
    /\ tpHead = [q \in Queues |-> [i \in SlotIds |->
                    IF i < Capacity(sizes[q]) THEN Sentinel(sizes, q, i) ELSE NilSpot]]
    /\ tpTail = [q \in Queues |-> [i \in SlotIds |->
                    IF i < Capacity(sizes[q]) THEN Sentinel(sizes, q, i) ELSE NilSpot]]
    /\ spot = [n \in ParkSpots |-> EmptySpot]
    /\ spotsMade = Capacity(sizes[1]) + Capacity(sizes[2])
    /\ parkPool = [q \in Queues |-> {}]
    /\ selState = [q \in Queues |-> SelectionOpen]
    /\ auxThread = [q \in Queues |-> IF auxPc = "Aux_start" THEN NoG ELSE auxOf[q]]
    /\ backlog = [q \in Queues |-> Zero]
    /\ waitList = [q \in Queues |-> << >>]
    /\ selection = [s \in Selections |->
                      [ThreadPtr |-> FALSE, g |-> NoG, Data |-> Zero, numQueues |-> 0,
                       referenceCount |-> 0]]
    /\ selsMade = 0
    /\ selectionPool = {}
    /\ listHead = [q \in Queues |-> q]
    /\ listTail = [q \in Queues |-> q]
    /\ node = [n \in Nodes |-> [next |-> 0, value |-> NilSel]]
    /\ nodesMade = Cardinality(Queues)
    /\ nodePool = {}
    /\ gstatus = [t \in Tasks |-> IF t \in AuxTasks /\ auxPc = "Aux_parked"
                                    THEN "waiting" ELSE "running"]
    /\ pc = [t \in Tasks |-> IF t \in AuxTasks THEN auxPc ELSE "idle"]
    /\ lv = [t \in Tasks |->
               IF t \in AuxTasks
                 THEN [NoLocals EXCEPT !.caller = "aux",
                                       !.q = CHOOSE q \in Queues : auxOf[q] = t]
                 ELSE NoLocals]
    /\ todo = programs
    /\ hist = [t \in Users |-> << >>]
    /\ ghost = [closeCalled |-> [q \in Queues |-> FALSE],
                writtenBeforeClose |-> [q \in Queues |-> {}],
                closeReserved |-> [q \in Queues |-> 0],
                closedStores |-> [q \in Queues |-> 0],
                lateReads |-> {},
                indexed |-> {},
                quietAtReset |-> FALSE,
                parkedValues |-> {},
                parkWakes |-> [t \in Users |-> 0],
                claims |-> [s \in Selections |-> {}],
                dataWrites |-> [s \in Selections |-> << >>],
                wakes |-> [s \in Selections |-> << >>],
                unwoken |-> [s \in Selections |-> FALSE],
                released |-> [s \in Selections |-> 0]]

NoProgram == [t \in Users |-> << >>]

----------------------------------------------------------------------------
(* Groups of steps *)

\* Write on a queue no selector waits on, with no producer parking
WriteSteps(t) ==
    \/ Write_checkState(t) \/ Write_dequeue(t) \/ Write_reserve(t) \/ Write_cas(t)
    \/ Write_load(t) \/ Write_item(t) \/ Write_commit(t)

\* a producer parks on its slot
ParkSteps(t) ==
    \/ Write_alloc(t) \/ Park_tail(t) \/ Park_next(t) \/ Park_check(t)
    \/ Park_casNext(t) \/ Park_casTail(t) \/ Write_park(t) \/ Write_resume(t)

\* Read on a queue that is not closed
ReadSteps(t) ==
    \/ Read_reserve(t) \/ Read_cas(t) \/ Read_load(t) \/ Read_item(t) \/ Read_empty(t)
    \/ Ready_head(t) \/ Ready_tail(t) \/ Ready_next(t) \/ Ready_check(t)
    \/ Read_afterReady(t)

\* Read hands over the value of a parked producer
ReadySteps(t) ==
    \/ Ready_thread(t) \/ Ready_ready(t) \/ Ready_value(t) \/ Ready_casHead(t)
    \/ Ready_clear(t)

\* Select, without the retry of the signals
SelectSteps(t) ==
    \/ Select_filter(t) \/ Select_backlog(t) \/ Select_get(t) \/ Select_enqueue(t)
    \/ Select_signal(t) \/ Select_readyAux(t) \/ Select_check(t) \/ Select_park(t)
    \/ Select_wake(t) \/ Select_decRef(t)

\* selectSender
AuxSteps(t) ==
    \/ Aux_park(t) \/ Aux_resume(t) \/ Aux_dequeue(t) \/ Aux_swap(t) \/ Aux_send(t)
    \/ Aux_ready(t) \/ Aux_decRef(t) \/ Aux_backlog(t) \/ Aux_open(t)

\* Close, and Read on a closed queue
CloseSteps(t) ==
    \/ Close_cas(t) \/ Close_reserve(t) \/ Close_casSlot(t) \/ Close_load(t)
    \/ Close_commit(t) \/ Read_casClosed(t) \/ Read_fullyClosed(t)

----------------------------------------------------------------------------
(* One producer and one consumer *)

\* values the producer writes
NumValues == 3

InitSPSC ==
    \E size \in {1, 2} :
        New([q \in Queues |-> IF q = 1 THEN size ELSE 1],
            [NoProgram EXCEPT !["p1"] = Writes(1, 1, NumValues),
                              !["c1"] = Reads(1, NumValues)],
            "Aux_parked")

NextSPSC ==
    \E t \in {"p1", "c1"} :
        \/ Call(t) \/ WriteSteps(t) \/ ParkSteps(t) \/ ReadSteps(t) \/ ReadySteps(t)
        \/ Ready_swing(t)

SpecSPSC == InitSPSC /\ [][NextSPSC]_vars

\* C2: with one producer and one consumer the consumer receives the values in
\* the order the producer wrote them: its i-th Read returns the i-th value
\* written, with open = true, whether the value went through the slot or was
\* handed over from the slot's park list
SPSCOrder ==
    \A i \in 1 .. Len(hist["c1"]) : hist["c1"][i] = Result("Read", 1, i, TRUE)

\* C11: a Read that obtained reader index i and returns a value with open = true
\* returns the value of the Write that obtained writer index i
IndexMatchedDelivery ==
    [][\A t \in Users :
          (/\ Len(hist'[t]) = Len(hist[t]) + 1
           /\ hist'[t][Len(hist'[t])].op = "Read"
           /\ hist'[t][Len(hist'[t])].res)
          => << lv[t].q, lv[t].idx, hist'[t][Len(hist'[t])].value >> \in ghost.indexed]_vars

----------------------------------------------------------------------------
(* One producer, two consumers, and a Close after the last Write *)

\* values the producer writes
NumWrites == 4

InitSPMC ==
    New([q \in Queues |-> 1],
        [NoProgram EXCEPT !["p1"] = Writes(1, 1, NumWrites),
                          !["c1"] = Reads(1, NumWrites),
                          !["c2"] = Reads(1, 1),
                          !["k1"] = << JoinClose(1) >>],
        "Aux_parked")

NextSPMC ==
    \E t \in {"p1", "c1", "c2", "k1"} :
        \/ Call(t) \/ WriteSteps(t) \/ ParkSteps(t) \/ ReadSteps(t) \/ ReadySteps(t)
        \/ Ready_swing(t) \/ CloseSteps(t)

SpecSPMC == InitSPMC /\ [][NextSPMC]_vars

\* C35: every wake of a parked producer is issued for the suspension it is in: the
\* Read that calls safe_ready holds the park node with the value of the Write the
\* producer is suspended in,
\* and its CAS on the parker's head then removes that node; a Read whose head CAS
\* fails has issued no wake, so no producer is woken during a later suspension
WokenOncePerPark ==
    [][\A r \in Users :
         /\ (pc[r] = "Ready_ready" /\ pc'[r] = "Ready_value")
              => /\ pc[lv[r].thr] = "Write_parked"
                 /\ spot[lv[r].next].value = lv[lv[r].thr].value
         /\ (pc[r] = "Ready_casHead" /\ pc'[r] # "Ready_casHead")
              => pc'[r] = "Ready_clear"]_vars

\* the number of reads on q that returned value v with open = true
ReadCount(q, v) ==
    Cardinality({ e \in Returned("Read", q) :
                    hist[e[1]][e[2]].res /\ hist[e[1]][e[2]].value = v })

\* every goroutine has made all its calls
ProgramDone == \A u \in Users : pc[u] = "idle" /\ todo[u] = << >>

\* C1: when the NumWrites writes have all returned closed = false, Close has been
\* called after them and every call has returned, the reads that returned
\* open = true have returned every written value exactly once and no other value
WriteReadConservation ==
    (/\ ProgramDone
     /\ WrittenValues(1) = 1 .. NumWrites
     /\ ghost.closeCalled[1])
    => \A v \in 0 .. NumWrites : ReadCount(1, v) = (IF v = Zero THEN 0 ELSE 1)

\* C12: a value that a Write handed to the park list of its slot is never returned
\* by two Reads, and when all calls have returned it was returned by one Read
ParkedValueOnce ==
    \A v \in ghost.parkedValues :
        /\ ReadCount(1, v) <= 1
        /\ ProgramDone => ReadCount(1, v) = 1

----------------------------------------------------------------------------
(* One producer, one consumer, and a Close at any moment *)

\* values the producer writes, and reads the consumer makes
NumCloseWrites == 2
NumCloseReads == 3

InitClose ==
    \E size \in {1, 2} :
        New([q \in Queues |-> IF q = 1 THEN size ELSE 1],
            [NoProgram EXCEPT !["p1"] = Writes(1, 1, NumCloseWrites),
                              !["c1"] = Reads(1, NumCloseReads),
                              !["k1"] = << CloseCall(1) >>],
            "Aux_parked")

NextClose ==
    \E t \in {"p1", "c1", "k1"} :
        \/ Call(t) \/ WriteSteps(t) \/ ParkSteps(t) \/ ReadSteps(t) \/ ReadySteps(t)
        \/ Ready_swing(t) \/ CloseSteps(t) \/ Read_rollback(t)

SpecClose == InitClose /\ [][NextClose]_vars

\* the values the first n reads of c1 returned with open = true
ReadBefore(n) == { hist["c1"][j].value : j \in { k \in 1 .. n - 1 : hist["c1"][k].res } }

\* C3: with a single consumer, every value whose Write returned closed = false
\* before Close was invoked has been returned by a Read with open = true
\* before the first Read that returns open = false
CloseDrains ==
    \A i \in 1 .. Len(hist["c1"]) :
        ~ hist["c1"][i].res => ghost.writtenBeforeClose[1] \subseteq ReadBefore(i)

\* C4: a Read that starts when globalState is StateFullyClosed returns
\* (default, false)
ReadAfterFullyClosed ==
    \A e \in ghost.lateReads :
        e[2] <= Len(hist[e[1]]) => hist[e[1]][e[2]] = Result("Read", 1, Zero, FALSE)

\* C21: the state of a slot changes only by Empty -> Busy (the CAS of Write or of
\* Close), Busy -> Committed (Write), Busy -> Closed (Close), Committed -> Busy (the
\* CAS of Read), Busy -> Empty (Read) and Closed -> Empty (the CAS of Read)
SlotStateMachine ==
    [][\A q \in Queues, i \in SlotIds :
         slotState'[q][i] # slotState[q][i] =>
           \E t \in Tasks :
             /\ lv[t].q = q /\ lv[t].slot = i /\ pc'[t] # pc[t]
             /\ << pc[t], slotState[q][i], slotState'[q][i] >> \in
                  { << "Write_cas", SlotEmpty, SlotBusy >>,
                    << "Close_casSlot", SlotEmpty, SlotBusy >>,
                    << "Write_commit", SlotBusy, SlotCommitted >>,
                    << "Close_commit", SlotBusy, SlotClosed >>,
                    << "Read_cas", SlotCommitted, SlotBusy >>,
                    << "Read_empty", SlotBusy, SlotEmpty >>,
                    << "Read_casClosed", SlotClosed, SlotEmpty >> }]_vars

\* a value went through its slot and was read, and the marker of Close was taken
\* out of its slot: every slot is empty again
AllTransitionsTaken ==
    /\ \E j \in 1 .. Len(hist["c1"]) : hist["c1"][j].res
    /\ \E j \in 1 .. Len(hist["c1"]) : ~ hist["c1"][j].res
    /\ ghost.closedStores[1] = 1
    /\ \A i \in SlotIds : slotState[1][i] = SlotEmpty

\* C22: on every slot at most one task is between its successful CAS into SlotBusy
\* and its following store, and the slot is SlotBusy all that time
BusyIsExclusive ==
    \A q \in Queues, i \in SlotIds :
        LET holders == { t \in Tasks :
                           /\ lv[t].q = q /\ lv[t].slot = i
                           /\ pc[t] \in {"Write_item", "Write_commit", "Read_item",
                                         "Read_empty", "Close_commit"} } IN
          /\ Cardinality(holders) <= 1
          /\ holders # {} => slotState[q][i] = SlotBusy

\* a producer holds one slot of the queue while the consumer holds the other
TwoSlotsHeld ==
    /\ pc["p1"] \in {"Write_item", "Write_commit"}
    /\ pc["c1"] \in {"Read_item", "Read_empty"}
    /\ lv["p1"].slot # lv["c1"].slot

\* C17: writerIndex >= readerIndex as sequence numbers in every reachable state
IndexOrder ==
    (writerIndex[1] - readerIndex[1] + IndexModulus) % IndexModulus < IndexModulus \div 2

\* C17: with one consumer, readerIndex is ahead of writerIndex by at most the number
\* of Reads that have taken an index at line 179 and have not returned yet
IndexOrderUpToReads ==
    LET reading == { t \in Users :
                       /\ lv[t].q = 1
                       /\ pc[t] \in {"Read_cas", "Read_load", "Read_afterReady",
                                     "Read_rollback", "Read_casClosed", "Read_fullyClosed",
                                     "Read_item", "Read_empty", "Ready_head", "Ready_tail",
                                     "Ready_next", "Ready_check", "Ready_swing",
                                     "Ready_thread", "Ready_ready", "Ready_value",
                                     "Ready_casHead", "Ready_clear"} } IN
    (writerIndex[1] + Cardinality(reading) - readerIndex[1] + IndexModulus) % IndexModulus
        < IndexModulus \div 2

\* a Read on the fully closed, empty queue holds an index that no Write has reached
\* and is about to give it back
ReadAheadOfWrite ==
    /\ pc["c1"] = "Read_rollback"
    /\ globalState[1] = StateFullyClosed
    /\ readerIndex[1] = AddUint(writerIndex[1], 1)

\* C5: a Write that finds globalState at StateClosedForWrites or StateFullyClosed
\* returns closed = true in that step and leaves writerIndex, every slot's state
\* and item, every park list and the selector waitlist unchanged
WriteOnClosedIsNoOp ==
    [][\A t \in Users :
         (pc[t] = "Write" /\ pc'[t] # "Write" /\ globalState[lv[t].q] # StateOpen)
         => /\ pc'[t] = "idle"
            /\ hist'[t] = Append(hist[t], Result("Write", lv[t].q, lv[t].value, TRUE))
            /\ UNCHANGED << writerIndex, slotState, slotItem, tpHead, tpTail, spot,
                            waitList >>]_vars

\* a Write has returned closed = true
WriteOnClosedWitness ==
    \E i \in 1 .. Len(hist["p1"]) : hist["p1"][i].res

\* C34: a Write returns closed = false only from the store of SlotCommitted after it
\* put its value in the slot, from its park after a Read took its value from the park
\* list and readied it, or after it gave its value to a selector; it never returns
\* closed = false with its value dropped, also when it finds its slot in SlotClosed
AcceptedWrite ==
    [][\A t \in Users :
         (/\ pc[t] \notin {"idle", "panic"} /\ pc'[t] = "idle"
          /\ hist'[t] = Append(hist[t], Result("Write", lv[t].q, lv[t].value, FALSE)))
           => \/ /\ pc[t] = "Write_commit"
                 /\ slotItem[lv[t].q][lv[t].slot] = lv[t].value
                 /\ slotState'[lv[t].q][lv[t].slot] = SlotCommitted
              \/ /\ pc[t] = "Write_parked"
                 /\ ghost.parkWakes[t] > 0
              \/ /\ pc[t] = "Write_decRef"
                 /\ \E i \in DOMAIN ghost.dataWrites[lv[t].sel] :
                      ghost.dataWrites[lv[t].sel][i] = t]_vars

\* a queue of capacity 1 or 2 under the Go scheduler, which runs every goroutine that
\* is not parked: weak fairness of the steps of each goroutine. Either p1 writes 1
\* and 2, k1 closes the queue at any moment and c1 reads until the queue is closed
\* and once more; or p1 writes 1 and 2, k1 writes 3 and c1 makes three Reads
FairClose ==
    /\ \E size \in {1, 2} : \E closing \in BOOLEAN :
         New([q \in Queues |-> IF q = 1 THEN size ELSE 1],
             [NoProgram EXCEPT
                !["p1"] = Writes(1, 1, 2),
                !["k1"] = IF closing THEN << CloseCall(1) >> ELSE << WriteCall(1, 3) >>,
                !["c1"] = IF closing THEN << ReadLoop(1), ReadCall(1) >>
                                     ELSE Reads(1, 3)],
             "Aux_parked")
    /\ [][NextClose]_vars
    /\ \A t \in {"p1", "c1", "k1"} :
         WF_vars(\/ Call(t) \/ WriteSteps(t) \/ ParkSteps(t) \/ ReadSteps(t)
                 \/ ReadySteps(t) \/ Ready_swing(t) \/ CloseSteps(t)
                 \/ Read_rollback(t))

\* C32: under fair scheduling, with a consumer that reads until the queue is
\* closed, a Close that won the CAS from StateOpen to StateClosedForWrites
\* eventually returns
CloseTerminates ==
    (pc["k1"] = "Close_reserve") ~> (hist["k1"] = << Result("Close", 1, Zero, FALSE) >>)

\* Close has taken a slot of the full queue and waits for it to become empty
CloseOnFullQueue ==
    /\ pc["k1"] = "Close_load"
    /\ \A i \in DOMAIN slotState[1] :
         i <= indexMask[1] => slotState[1][i] = SlotCommitted

\* C33: in the program where nobody closes the queue and the consumer makes as many
\* Reads as there are Writes, under fair scheduling every producer that has parked
\* on the park list of a slot is eventually readied
ParkedProducersWake ==
    \A t \in {"p1", "k1"} :
        (/\ pc[t] = "Write_parked" /\ gstatus[t] = "waiting"
         /\ ~ ghost.closeCalled[1] /\ pc["k1"] # "Close"
         /\ \A i \in 1 .. Len(todo["k1"]) : todo["k1"][i].op = "Write")
          ~> (gstatus[t] = "running")

----------------------------------------------------------------------------
(* Two goroutines call the Close of src/zenq.go while a consumer reads *)

NumCloseTwiceReads == 2

InitCloseTwice ==
    \E size \in {1, 2} :
        New([q \in Queues |-> IF q = 1 THEN size ELSE 1],
            [NoProgram EXCEPT !["k1"] = << Close8Call(1) >>,
                              !["k2"] = << Close8Call(1) >>,
                              !["c1"] = Reads(1, NumCloseTwiceReads)],
            "Aux_parked")

NextCloseTwice ==
    \E t \in {"k1", "k2", "c1"} :
        \/ Call(t) \/ Close_load8(t) \/ Close_store8(t) \/ Close_reserve(t)
        \/ Close_casSlot(t) \/ Close_load(t) \/ Close_commit(t)
        \/ Read_casClosed(t) \/ Read_fullyClosed(t) \/ Read_rollback(t)
        \/ Read_reserve(t) \/ Read_cas(t) \/ Read_load(t) \/ Read_afterReady(t)
        \/ Ready_head(t) \/ Ready_tail(t) \/ Ready_next(t) \/ Ready_check(t)

SpecCloseTwice == InitCloseTwice /\ [][NextCloseTwice]_vars

\* the goroutines whose Close has returned already_closed = false
ClosedBy == { k \in {"k1", "k2"} : hist[k] # << >> /\ ~ hist[k][1].res }

\* C6: of the Close calls on an open queue at most one returns
\* already_closed = false, reserves a writer index and sets a slot to Closed, and
\* when all have returned exactly one has returned already_closed = false
CloseHappensOnce ==
    /\ Cardinality(ClosedBy) <= 1
    /\ ghost.closeReserved[1] <= 1
    /\ ghost.closedStores[1] <= 1
    /\ (hist["k1"] # << >> /\ hist["k2"] # << >>) => Cardinality(ClosedBy) = 1

\* the programs above, and the program in which k1 closes the queue while c1 and k2
\* each make two Reads
SpecCloseReaders ==
    /\ \/ InitCloseTwice
       \/ \E size \in {1, 2} :
            New([q \in Queues |-> IF q = 1 THEN size ELSE 1],
                [NoProgram EXCEPT !["k1"] = << Close8Call(1) >>,
                                  !["k2"] = Reads(1, 2),
                                  !["c1"] = Reads(1, 2)],
                "Aux_parked")
    /\ [][NextCloseTwice]_vars

\* C31: a Read that finds its slot Empty with no parked producer on the fully closed
\* queue returns (default, false), and with it readerIndex less the number of Reads
\* that hold an index is the same modulo 2^IndexBits as before: the Read has given
\* back exactly the index it took, whatever other Reads do at the same time
ReaderRollback ==
    [][LET Holding(pcs, q) ==
             Cardinality({ u \in Users :
                             /\ lv[u].q = q
                             /\ pcs[u] \in {"Read_cas", "Read_load", "Read_afterReady",
                                            "Read_rollback", "Read_casClosed",
                                            "Read_fullyClosed", "Read_item", "Read_empty",
                                            "Ready_head", "Ready_tail", "Ready_next",
                                            "Ready_check", "Ready_swing", "Ready_thread",
                                            "Ready_ready", "Ready_value", "Ready_casHead",
                                            "Ready_clear"} }) IN
       \A t \in Users :
        /\ (pc'[t] = "Read_rollback" /\ pc[t] # pc'[t]) =>
           /\ globalState[lv[t].q] = StateFullyClosed
           /\ pc[t] = "Read_afterReady" /\ ~ lv[t].ok
        /\ (pc[t] = "Read_rollback" /\ pc'[t] # pc[t]) =>
           /\ hist'[t] = Append(hist[t], Result("Read", lv[t].q, Zero, FALSE))
           /\ (readerIndex'[lv[t].q] + IndexModulus - Holding(pc', lv[t].q)) % IndexModulus
                = (readerIndex[lv[t].q] + IndexModulus - Holding(pc, lv[t].q)) % IndexModulus
           /\ readerIndex'[lv[t].q] = (readerIndex[lv[t].q] + IndexModulus - 1) % IndexModulus]_vars

\* two Reads on the fully closed queue hold an index each and are about to give
\* them back
TwoReadsRollBack ==
    /\ pc["c1"] = "Read_rollback"
    /\ pc["k2"] = "Read_rollback"
    /\ globalState[1] = StateFullyClosed

----------------------------------------------------------------------------
(* One selector over two queues, each fed by its own producer:
   src/benchmarks/selector/main.go lines 163-194, zenqSelector *)

\* values each producer writes when the selector has one queue, and when it has two
NumSoloValues == 3
NumPairValues == 1

\* Write hands its value to a waiting selector: direct_send
DirectSendSteps(t) ==
    \/ Write_swap(t) \/ Write_send(t) \/ Write_ready(t) \/ Write_decRef(t)
    \/ Write_dropRef(t)

\* n calls of Select over the streams
RECURSIVE Selects(_, _)
Selects(streams, n) ==
    IF n = 0 THEN << >> ELSE << SelectCall(streams) >> \o Selects(streams, n - 1)

\* producer p1 writes 1 .. K to queue 1 and, with two queues, producer p2 writes
\* K+1 .. 2K to queue 2; the selector makes n*K calls of Select over the n queues
SelectorProgram(n, K) ==
    [NoProgram EXCEPT
       !["p1"] = Writes(1, 1, K),
       !["p2"] = IF n = 2 THEN Writes(2, K + 1, 2 * K) ELSE << >>,
       !["s1"] = Selects(IF n = 2 THEN << 1, 2 >> ELSE << 1 >>, n * K)]

\* the third program: two selectors, s1 and c1, each call Select once on queue 1,
\* to which p1 writes 1 and 2
InitSelect ==
    \/ New([q \in Queues |-> 1], SelectorProgram(1, NumSoloValues), "Aux_parked")
    \/ New([q \in Queues |-> 1], SelectorProgram(2, NumPairValues), "Aux_parked")
    \/ New([q \in Queues |-> 1],
           [NoProgram EXCEPT !["p1"] = Writes(1, 1, 2),
                             !["s1"] = Selects(<< 1 >>, 1),
                             !["c1"] = Selects(<< 1 >>, 1)],
           "Aux_parked")

NextSelect ==
    \E t \in {"p1", "p2", "a1", "a2", "s1", "c1"} :
        \/ Call(t) \/ WriteSteps(t) \/ DirectSendSteps(t) \/ ParkSteps(t)
        \/ ReadSteps(t) \/ ReadySteps(t) \/ Ready_swing(t)
        \/ SelectSteps(t) \/ Select_recheck(t) \/ AuxSteps(t)

SpecSelect == InitSelect /\ [][NextSelect]_vars

\* the values of the Write calls of producer u: returned, in progress, and to come
ValuesOf(u) ==
    { hist[u][i].value : i \in 1 .. Len(hist[u]) }
      \cup { todo[u][i].value : i \in 1 .. Len(todo[u]) }
      \cup (IF pc[u] \notin {"idle", "panic"} THEN {lv[u].value} ELSE {})

\* C7: with one producer per queue writing K values and n*K calls of Select, every
\* Select returns ok = true with a value some producer wrote, and no value is
\* returned by two Selects; so when the n*K calls have returned, every written value
\* was returned by exactly one of them
SelectConservation ==
    /\ \A i \in 1 .. Len(hist["s1"]) :
          /\ hist["s1"][i].res
          /\ hist["s1"][i].value \in ValuesOf("p1") \cup ValuesOf("p2")
    /\ \A i, j \in 1 .. Len(hist["s1"]) :
          i # j => hist["s1"][i].value # hist["s1"][j].value

\* C36: with one producer per queue and s1 the only goroutine that takes values, and
\* only through Select, the values of one queue that s1's calls return come in the
\* order their producer wrote them: a value the backlog, the auxiliary goroutine or a
\* direct send delivers never comes before a value written earlier to the same queue
SelectOrder ==
    (pc["c1"] = "idle" /\ todo["c1"] = << >> /\ hist["c1"] = << >>)
      => \A u \in Producers : \A i, j \in 1 .. Len(hist["s1"]) :
            (/\ i < j
             /\ hist["s1"][i].res /\ hist["s1"][j].res
             /\ hist["s1"][i].value \in ValuesOf(u)
             /\ hist["s1"][j].value \in ValuesOf(u))
              => hist["s1"][i].value <= hist["s1"][j].value

\* the programs of SpecSelect and one more: p1 writes 1 to queue 1 while s1 calls
\* Select on queue 1 and, when it has returned, writes 2 to queue 1 and calls Read
SpecSelectRead ==
    /\ \/ InitSelect
       \/ New([q \in Queues |-> 1],
              [NoProgram EXCEPT
                 !["p1"] = Writes(1, 1, 1),
                 !["s1"] = << SelectCall(<< 1 >>), WriteCall(1, 2), ReadCall(1) >>],
              "Aux_parked")
    /\ [][NextSelect]_vars

\* C37: when every Select call has returned, the auxiliary goroutine of a queue
\* holds no reader index of the queue: it is in none of the steps of Read that follow
\* the increment of readerIndex; and a Read by the goroutine that called Select, made
\* right after its Write of v to the same queue, returns (v, true)
NoHiddenConsumer ==
    LET Selecting == {"Select", "Select_backlog", "Select_get", "Select_enqueue",
                      "Select_signal", "Select_readyAux", "Select_check",
                      "Select_recheck", "Select_park", "Select_parked", "Select_decRef"}
        SelectsReturned ==
            /\ \E t \in Users : \E i \in 1 .. Len(hist[t]) : hist[t][i].op = "Select"
            /\ \A t \in Users :
                  /\ pc[t] \notin Selecting \cup {"panic"}
                  /\ \A i \in 1 .. Len(todo[t]) : todo[t][i].op # "Select"
    IN  SelectsReturned =>
          /\ \A q \in Queues :
                pc[auxOf[q]] \in {"Aux_parked", "Aux_park", "Aux_dequeue", "Aux_swap",
                                  "Aux_send", "Aux_ready", "Aux_decRef", "Aux_backlog",
                                  "Aux_open", "Read"}
          /\ \A t \in Users : \A i \in 2 .. Len(hist[t]) :
                (/\ hist[t][i].op = "Read"
                 /\ hist[t][i - 1].op = "Write" /\ hist[t][i - 1].q = hist[t][i].q)
                  => hist[t][i] = Result("Read", hist[t][i].q, hist[t][i - 1].value, TRUE)

\* the programs of SpecSelect and one more, which starts where New returns: line 114
\* has started selectSender and line 116, mcall(gosched_m), has put the caller back
\* on the run queue, from which any idle processor takes it; the new goroutine has
\* not run yet. p1 writes 1 to queue 1 and s1 calls Select on queue 1
SpecSelectNew ==
    /\ \/ InitSelect
       \/ New([q \in Queues |-> 1],
              [NoProgram EXCEPT !["p1"] = Writes(1, 1, 1),
                                !["s1"] = Selects(<< 1 >>, 1)],
              "Aux_start")
    /\ [][NextSelect \/ \E t \in AuxTasks : Aux_start(t)]_vars

\* C38: a Signal whose CAS takes selState from SelectionOpen to SelectionRunning
\* finds auxThread already stored by selectSender, so the safe_ready that follows is
\* never given a nil goroutine, also for a Select called right after New returned
SignalAfterRegistration ==
    [][\A q \in Queues :
         (selState[q] = SelectionOpen /\ selState'[q] = SelectionRunning)
           => auxThread[q] # NoG]_vars

----------------------------------------------------------------------------
(* One selector over queues that close *)

\* what each goroutine of the programs below can do
SelectCloseStep(t) ==
    \/ Call(t)
    \/ Write_checkState(t) \/ Write_dequeue(t) \/ Write_reserve(t) \/ Write_cas(t)
    \/ Write_item(t) \/ Write_commit(t) \/ DirectSendSteps(t)
    \/ ReadSteps(t) \/ Read_casClosed(t) \/ Read_fullyClosed(t)
    \/ Close_cas(t) \/ Close_reserve(t) \/ Close_casSlot(t) \/ Close_commit(t)
    \/ SelectSteps(t) \/ AuxSteps(t)

\* one call of Select, over queue 1 or over queues 1 and 2. Queue 2, when it is
\* selected, is closed by k2. Queue 1 is closed by k1, or producer p1 writes one
\* value to it.
InitSelectClose ==
    \E streams \in {<< 1 >>, << 1, 2 >>} : \E closeFirst \in BOOLEAN :
        New([q \in Queues |-> 1],
            [NoProgram EXCEPT
               !["p1"] = IF closeFirst THEN << >> ELSE Writes(1, 1, 1),
               !["k1"] = IF closeFirst THEN << CloseCall(1) >> ELSE << >>,
               !["k2"] = IF Len(streams) = 2 THEN << CloseCall(2) >> ELSE << >>,
               !["s1"] = Selects(streams, 1)],
            "Aux_parked")

NextSelectClose == \E t \in {"p1", "k1", "k2", "a1", "a2", "s1"} : SelectCloseStep(t)

\* the Go scheduler runs every goroutine that is not parked: weak fairness of the
\* steps of each goroutine
FairSelectClose ==
    /\ InitSelectClose /\ [][NextSelectClose]_vars
    /\ \A t \in {"p1", "k1", "k2", "a1", "a2", "s1"} : WF_vars(SelectCloseStep(t))

\* C8: when no value is ever written and every selected queue closes, under fair
\* scheduling the call of Select eventually returns (nil, false)
SelectOverClosedReturns ==
    (todo["p1"] = << >>) => <>(hist["s1"] = << Result("Select", 0, Zero, FALSE) >>)

\* two calls of Select over any list of one or two streams, each nil (0), queue 1 or
\* queue 2. Queue 2, when it is selected, is closed by k2. Queue 1 is closed by k1,
\* or producer p1 writes one value to it.
SpecSelectFilter ==
    /\ \E streams \in UNION { [1 .. n -> {0} \cup Queues] : n \in 1 .. 2 } :
       \E closeFirst \in BOOLEAN :
         New([q \in Queues |-> 1],
             [NoProgram EXCEPT
                !["p1"] = IF closeFirst THEN << >> ELSE Writes(1, 1, 1),
                !["k1"] = IF closeFirst THEN << CloseCall(1) >> ELSE << >>,
                !["k2"] = IF \E i \in 1 .. Len(streams) : streams[i] = 2
                            THEN << CloseCall(2) >> ELSE << >>,
                !["s1"] = Selects(streams, 2)],
             "Aux_parked")
    /\ [][NextSelectClose]_vars

\* C29: the filter step of Select leaves in the active prefix streams[0 .. numStreams]
\* only queues that are not nil and not fully closed, and every such queue of the
\* argument list; when there is none, Select returns (nil, false) and touches no
\* waitlist and no selectSender
SelectFilters ==
    [][\A t \in Users :
         (pc[t] = "Select" /\ pc'[t] # pc[t]) =>
           LET streams == lv[t].streams
               usable == { i \in 1 .. Len(streams) :
                             streams[i] # 0 /\ globalState[streams[i]] # StateFullyClosed }
               active == IF pc'[t] = "Select_backlog"
                           THEN 1 .. lv'[t].numStreams + 1 ELSE {} IN
             /\ \A i \in active :
                  /\ lv'[t].streams[i] # 0
                  /\ globalState[lv'[t].streams[i]] # StateFullyClosed
             /\ \A i \in usable : \E j \in active : lv'[t].streams[j] = streams[i]
             /\ usable = {} =>
                  /\ pc'[t] = "idle"
                  /\ hist'[t] = Append(hist[t], Result("Select", 0, Zero, FALSE))
                  /\ waitList' = waitList /\ selState' = selState]_vars

\* C10: in every selection at most one participant takes the selector's handle;
\* only that participant writes the data and wakes the selector, each at most once;
\* and the participant that took the handle does wake the selector
SingleClaimer ==
    \A s \in Selections :
        /\ Cardinality(ghost.claims[s]) <= 1
        /\ Len(ghost.dataWrites[s]) <= 1
        /\ Len(ghost.wakes[s]) <= 1
        /\ \A i \in 1 .. Len(ghost.dataWrites[s]) : ghost.dataWrites[s][i] \in ghost.claims[s]
        /\ \A i \in 1 .. Len(ghost.wakes[s]) : ghost.wakes[s][i] \in ghost.claims[s]
        /\ ~ ghost.unwoken[s]

----------------------------------------------------------------------------
(* One selector over two open queues that each receive one value *)

\* what each goroutine of the program below can do
SelectPairStep(t) ==
    \/ Call(t)
    \/ Write_checkState(t) \/ Write_dequeue(t) \/ Write_reserve(t) \/ Write_cas(t)
    \/ Write_item(t) \/ Write_commit(t) \/ DirectSendSteps(t)
    \/ ReadSteps(t) \/ SelectSteps(t) \/ Select_recheck(t) \/ AuxSteps(t)

\* a producer writes 1 to queue 1 and then 2 to queue 2; the selector calls
\* Select(q1, q2) twice, and nobody else reads
InitSelectPair ==
    New([q \in Queues |-> 1],
        [NoProgram EXCEPT !["p1"] = << WriteCall(1, 1), WriteCall(2, 2) >>,
                          !["s1"] = Selects(<< 1, 2 >>, 2)],
        "Aux_parked")

NextSelectPair == \E t \in {"p1", "a1", "a2", "s1"} : SelectPairStep(t)

\* the Go scheduler runs every goroutine that is not parked
FairSelectPair ==
    /\ InitSelectPair /\ [][NextSelectPair]_vars
    /\ \A t \in {"p1", "a1", "a2", "s1"} : WF_vars(SelectPairStep(t))

\* C9: two values are written to the selected queues and only Select takes values;
\* under fair scheduling each of the two calls of Select eventually returns a value
\* with ok = true
SelectReturnsValue ==
    <>(/\ Len(hist["s1"]) = 2
       /\ \A i \in 1 .. 2 : hist["s1"][i].res /\ hist["s1"][i].value # Zero)

\* C25: a value that lies in the backlog of a queue has not been returned by a
\* Select and is not the Data of a Selection record in use, and no value is returned
\* by two Selects
BacklogOnce ==
    /\ \A q \in Queues :
         backlog[q] # Zero =>
           /\ \A e \in Returned("Select", 0) : hist[e[1]][e[2]].value # backlog[q]
           /\ \A r \in Selections \ selectionPool : selection[r].Data # backlog[q]
    /\ \A e, f \in Returned("Select", 0) :
         (hist[e[1]][e[2]].res /\ hist[e[1]][e[2]].value = hist[f[1]][f[2]].value) => e = f

\* C26: selectSender calls Read only when it wakes from its park, at most once for
\* each wake, and only when the value of its last Read has been delivered to a
\* selector; a value in backlog is replaced by another value only after it has
\* been delivered
AuxHoldsOneValue ==
    [][LET Delivered(v) ==
             \/ v = Zero
             \/ \E e \in Returned("Select", 0) : hist[e[1]][e[2]].value = v
             \/ \E r \in Selections \ selectionPool : selection[r].Data = v IN
       \A q \in Queues :
         /\ (pc'[auxOf[q]] = "Read" /\ pc[auxOf[q]] # "Read")
               => (pc[auxOf[q]] = "Aux_parked" /\ Delivered(lv[auxOf[q]].auxData))
         /\ (backlog'[q] # backlog[q] /\ backlog[q] # Zero /\ backlog'[q] # Zero)
               => Delivered(backlog[q])]_vars

\* selectSender is in its second Read: the value of its first Read went to a selector
AuxReadsAgain ==
    \E q \in Queues :
        /\ pc[auxOf[q]] \in {"Read", "Read_cas", "Read_load"}
        /\ lv[auxOf[q]].auxData # Zero
        /\ \E e \in Returned("Select", 0) : hist[e[1]][e[2]].value = lv[auxOf[q]].auxData

\* C27: selectSender is woken only from its park, by the one Signal whose CAS from
\* SelectionOpen to SelectionRunning succeeded since it last stored SelectionOpen;
\* a Signal that succeeded before selectSender has parked waits for the park
SignalWakesOnce ==
    [][\A q \in Queues :
         LET signallers == { t \in Users : /\ pc[t] = "Select_readyAux"
                                          /\ lv[t].streams[lv[t].idx + 1] = q } IN
           /\ signallers # {} =>
                /\ Cardinality(signallers) = 1
                /\ selState[q] = SelectionRunning
                /\ pc[auxOf[q]] \in {"Aux_park", "Aux_parked"}
                /\ pc[auxOf[q]] = "Aux_parked" => gstatus[auxOf[q]] = "waiting"
           /\ gstatus'[auxOf[q]] # gstatus[auxOf[q]] /\ gstatus'[auxOf[q]] = "running"
                => /\ pc[auxOf[q]] = "Aux_parked"
                   /\ \E t \in signallers : pc'[t] # pc[t]
           /\ \A t \in Users :
                (pc'[t] = "Select_readyAux" /\ pc[t] # pc'[t]
                   /\ lv'[t].streams[lv'[t].idx + 1] = q)
                  => (selState[q] = SelectionOpen /\ selState'[q] = SelectionRunning)]_vars

\* a Signal won its CAS after selectSender stored SelectionOpen and before it parked,
\* while the other selector has its record in the wait list
SignalBeforePark ==
    /\ pc["s1"] = "Select_readyAux"
    /\ pc["a1"] = "Aux_park"
    /\ pc["c1"] \in {"Select_signal", "Select_check", "Select_park", "Select_parked"}

\* C28: a selector suspends in Select only when its handle is already claimed (swapped
\* to nil) or at least one Signal of this call, made after its record was enqueued on
\* every active queue, succeeded; it never parks with an unclaimed handle and no
\* successful signal
SelectHandshake ==
    [][\A t \in Users :
         /\ (pc[t] = "Select_park" /\ pc'[t] = "Select_parked")
              => \/ selection[lv[t].sel].g = NoG
                 \/ lv[t].numSignals > 0
         /\ (pc[t] = "Select_enqueue" /\ pc'[t] = "Select_signal")
              => /\ lv[t].idx = lv[t].numStreams
                 /\ lv'[t].numSignals = 0
         /\ lv'[t].numSignals > lv[t].numSignals
              => /\ pc[t] \in {"Select_signal", "Select_readyAux"}
                 /\ selState[lv[t].streams[lv[t].idx + 1]] = SelectionRunning]_vars

\* a selector whose only Signal lost its CAS parked after finding its handle claimed
ParkedWithoutSignal ==
    \E t \in Users : /\ pc[t] = "Select_parked"
                     /\ lv[t].numSignals = 0
                     /\ selection[lv[t].sel].g = NoG

\* with a waitlist whose Enqueue and Dequeue are atomic, the reference count of a
\* Selection record is never negative; while the record
\* is out of the pool its count is the number of its waitlist entries, plus the
\* enqueues its selector has still to make, plus the writers and selectSenders that
\* dequeued it and have not yet decremented, plus one for the selector until its
\* decrement after reading Data and numQueues; a record in the pool is on no
\* waitlist, and no selector, writer or selectSender is using it
ReferencesCounted ==
    \A s \in Selections :
      LET entries == { e \in Queues \X (1 .. MaxSelections + 1) :
                         /\ e[2] <= Len(waitList[e[1]])
                         /\ waitList[e[1]][e[2]] = s }
          dequeuers == { t \in Tasks :
                           /\ pc[t] \in {"Write_swap", "Write_send", "Write_ready",
                                         "Write_decRef", "Write_dropRef", "Aux_swap",
                                         "Aux_send", "Aux_ready", "Aux_decRef"}
                           /\ lv[t].sel = s }
          selectors == { t \in Users :
                           /\ pc[t] \in {"Select_enqueue", "Select_signal",
                                         "Select_readyAux", "Select_check",
                                         "Select_recheck", "Select_park", "Select_parked",
                                         "Select_decRef"}
                           /\ lv[t].sel = s }
          toEnqueue == { e \in selectors \X (0 .. MaxSelections + 1) :
                           /\ pc[e[1]] = "Select_enqueue"
                           /\ lv[e[1]].idx <= e[2] /\ e[2] <= lv[e[1]].numStreams } IN
        /\ selection[s].referenceCount >= 0
        /\ IF s <= selsMade /\ s \notin selectionPool
             THEN /\ Cardinality(selectors) <= 1
                  /\ selection[s].referenceCount =
                       Cardinality(entries) + Cardinality(toEnqueue)
                         + Cardinality(dequeuers) + Cardinality(selectors)
             ELSE entries = {} /\ dequeuers = {} /\ selectors = {}

\* C20: when Select starts on two open queues, its filter_shuffle step can leave the
\* queues in another order than the order of the arguments, the order in which they
\* are then enqueued and signalled
SelectShuffles ==
    (/\ pc["s1"] = "Select"
     /\ Len(lv["s1"].streams) = 2
     /\ ~ StreamClosed(lv["s1"].streams, 0)
     /\ ~ StreamClosed(lv["s1"].streams, 1))
        => ENABLED (Select_filter("s1") /\ lv'["s1"].streams # lv["s1"].streams)

\* C16: under fair scheduling the reference count of every Selection record taken
\* by a Select eventually reaches zero, where the record goes back to the pool
ReferenceBalance ==
    \A s \in Selections :
        (selection[s].referenceCount > 0)
          ~> (selection[s].referenceCount = 0 /\ s \in selectionPool)

----------------------------------------------------------------------------
(* Reset, with a producer and a consumer at work *)

\* values the producer writes before or while the queue is reset
NumResetWrites == 2

\* what each goroutine of the program below can do
ResetStep(t) ==
    \/ Call(t) \/ WriteSteps(t) \/ ParkSteps(t) \/ ReadSteps(t) \/ ReadySteps(t)
    \/ Ready_swing(t) \/ CloseSteps(t) \/ Read_rollback(t)
    \/ Reset_closeAsync(t) \/ Reset_open(t)

\* the value written after the Reset
AfterReset == 9

\* a queue of capacity 1; producer p1 writes up to two values, consumer c1 makes up
\* to one Read, and k1 calls Reset, then writes a value and reads; or k1 is alone and
\* closes the queue and reads the closure before it calls Reset
InitReset ==
    \/ \E n \in 0 .. NumResetWrites : \E r \in 0 .. 1 :
          New([q \in Queues |-> 1],
              [NoProgram EXCEPT
                 !["p1"] = Writes(1, 1, n),
                 !["c1"] = Reads(1, r),
                 !["k1"] = << ResetCall(1), WriteCall(1, AfterReset), ReadCall(1) >>],
              "Aux_parked")
    \/ New([q \in Queues |-> 1],
           [NoProgram EXCEPT
              !["k1"] = << CloseCall(1), ReadCall(1), ResetCall(1),
                           WriteCall(1, AfterReset), ReadCall(1) >>],
           "Aux_parked")

NextReset == \E t \in {"p1", "c1", "k1", "k2"} : ResetStep(t)

SpecReset == InitReset /\ [][NextReset]_vars

\* C13: globalState only steps Open -> ClosedForWrites by the CAS of Close,
\* ClosedForWrites -> FullyClosed by the Read that consumed the Closed marker, and
\* FullyClosed -> Open by the store of Reset
GlobalStateSteps ==
    [][\A q \in Queues :
          globalState'[q] # globalState[q] =>
            \E t \in Tasks :
              /\ pc'[t] # pc[t]
              /\ \/ /\ globalState[q] = StateOpen
                    /\ globalState'[q] = StateClosedForWrites
                    /\ pc[t] = "Close"
                 \/ /\ globalState[q] = StateClosedForWrites
                    /\ globalState'[q] = StateFullyClosed
                    /\ pc[t] = "Read_fullyClosed"
                 \/ /\ globalState[q] = StateFullyClosed
                    /\ globalState'[q] = StateOpen
                    /\ pc[t] = "Reset_open"]_vars

\* the number of calls k1 had finished when its Reset returned, or 0
ResetReturned ==
    IF \E i \in 1 .. Len(hist["k1"]) : hist["k1"][i].op = "Reset"
      THEN CHOOSE i \in 1 .. Len(hist["k1"]) : hist["k1"][i].op = "Reset"
      ELSE 0

\* C14: once Reset has returned the queue is Open and stays Open, and the Write and
\* the Read that follow return (closed = false) and (value, open = true); when no
\* other goroutine uses the queue, every slot is Empty and readerIndex = writerIndex
\* at the return of Reset
ResetReopens ==
    ResetReturned > 0 =>
      /\ globalState[1] = StateOpen
      /\ Len(hist["k1"]) > ResetReturned =>
            hist["k1"][ResetReturned + 1] = Result("Write", 1, AfterReset, FALSE)
      /\ Len(hist["k1"]) > ResetReturned + 1 =>
            hist["k1"][ResetReturned + 2] = Result("Read", 1, AfterReset, TRUE)
      /\ (/\ Len(hist["k1"]) = ResetReturned /\ pc["k1"] = "idle"
          /\ pc["k2"] = "idle"
          /\ \A u \in {"p1", "c1"} : todo[u] = << >> /\ hist[u] = << >> /\ pc[u] = "idle")
         => /\ readerIndex[1] = writerIndex[1]
            /\ \A i \in SlotIds : slotState[1][i] = SlotEmpty

\* C15: when every producer was parked or had finished at the call of Reset, then
\* at the return of Reset no producer is suspended on a park list and no slot is
\* Committed
ResetReleasesParked ==
    [][(pc["k1"] = "Reset_open" /\ pc'["k1"] = "idle" /\ ghost.quietAtReset)
         => /\ \A u \in Producers :
                 ~ (pc'[u] = "Write_parked" /\ gstatus'[u] = "waiting")
            /\ \A i \in SlotIds : slotState'[1][i] # SlotCommitted]_vars

-----------------------------------------------------------------------------
(* New of src/zenq.go, lines 199-230: the capacity of the ring *)

\* the largest capacity a caller asks for
MaxRequest == 65540

\* a rounding with no upper limit
UncappedPowerOf2(val) == 2 ^ CeilLog2(val)

\* src/zenq.go line 201: 1 << uint32(math.Min(math.Ceil(Fastlog2(math.Max(float64(val), 1))), 16)).
\* runtime.fastlog2 adds to the exponent of val an interpolation over the first 25
\* bits of the mantissa, which is 0 when val is a power of two and lies strictly
\* between 0 and 1 for every other val below 2^26: math.Ceil of it is CeilLog2(val)
nextGreaterPowerOf2Zenq(val) == 2 ^ Min(CeilLog2(val), 16)

\* lines 207-222: queueSize = nextGreaterPowerOf2(size), the ring of queueSize slots
\* (the model keeps the slots of SlotIds), indexMask: uint16(queueSize - 1); line 229
\* returns the queue, and there is no other outcome. The caller keeps size.
New_make(t) ==
    /\ pc[t] = "New"
    /\ LET queueSize == nextGreaterPowerOf2Zenq(lv[t].value) IN
         /\ indexMask' = [indexMask EXCEPT ![lv[t].q] = (queueSize - 1) % (2 ^ 16)]
         /\ hist' = [hist EXCEPT ![t] = Append(@, Result("New", lv[t].q, queueSize, FALSE))]
    /\ pc' = [pc EXCEPT ![t] = "idle"]
    /\ UNCHANGED << writerIndex, readerIndex, globalState, slotState, slotItem,
                    listVars, parkerVars, selectVars, gstatus, todo, lv, ghost >>

\* one goroutine calls New(size); until New returns the fields of the queue hold
\* their zero values
InitNew ==
    \E size \in 0 .. MaxRequest :
        New([q \in Queues |-> 1],
            [NoProgram EXCEPT !["k1"] = << [WriteCall(1, size) EXCEPT !.op = "New",
                                                                   !.entry = "New"] >>],
            "Aux_parked")

NextNew == \E t \in {"k1"} : Call(t) \/ New_make(t)

SpecNew == InitNew /\ [][NextNew]_vars

\* C18: for every requested capacity c with 1 <= c <= 2^16, New makes a ring whose
\* capacity is the smallest power of two >= c, with indexMask = capacity - 1; the
\* capacity never exceeds 2^16
CapacityRounding ==
    hist["k1"] # << >> =>
        LET c == lv["k1"].value
            capacity == hist["k1"][1].value IN
          /\ capacity <= 2 ^ 16
          /\ (1 <= c /\ c <= 2 ^ 16)
               => /\ \E k \in 0 .. 16 : capacity = 2 ^ k
                  /\ capacity >= c
                  /\ \A k \in 0 .. 16 : 2 ^ k >= c => capacity <= 2 ^ k
                  /\ indexMask[1] = capacity - 1

\* New(2^15 + 1) has returned a ring of 2^16 slots
RoundedUp ==
    /\ hist["k1"] = << Result("New", 1, 2 ^ 16, FALSE) >>
    /\ lv["k1"].value = 2 ^ 15 + 1
    /\ indexMask[1] = 2 ^ 16 - 1

\* C19: New with a requested capacity of 0 or above 2^16 ends with an error and
\* makes no queue
OutOfRangeRejected ==
    (hist["k1"] # << >> /\ (lv["k1"].value = 0 \/ lv["k1"].value > 2 ^ 16))
        => hist["k1"][1].res

-----------------------------------------------------------------------------
(* List: src/list.go lines 10-84; the nil node pointer is 0 *)

\* lines 34-55: Enqueue(value), one disjunct for each step
Enqueue(t) ==
    LET q == lv[t].q IN
    /\ \/ \* lines 36, 39: n = nodePool.Get(); n.next, n.value = nil, value
          /\ pc[t] = "Enqueue"
          /\ \E n \in nodePool \cup (IF nodesMade < MaxNodes THEN {nodesMade + 1} ELSE {}) :
               /\ nodePool' = nodePool \ {n}
               /\ nodesMade' = IF n \in nodePool THEN nodesMade ELSE nodesMade + 1
               /\ node' = [node EXCEPT ![n] = [next |-> 0, value |-> lv[t].value]]
               /\ Goto(t, "Enqueue_tail", [lv[t] EXCEPT !.n = n])
          /\ UNCHANGED << listHead, listTail, hist >>
       \/ \* line 41: tail = atomic.LoadPointer(&l.tail)
          /\ pc[t] = "Enqueue_tail"
          /\ Goto(t, "Enqueue_next", [lv[t] EXCEPT !.tail = listTail[q]])
          /\ UNCHANGED << listVars, hist >>
       \/ \* line 42: next = atomic.LoadPointer(&tail.next)
          /\ pc[t] = "Enqueue_next"
          /\ Goto(t, "Enqueue_check", [lv[t] EXCEPT !.next = node[lv[t].tail].next])
          /\ UNCHANGED << listVars, hist >>
       \/ \* lines 43-44: tail == atomic.LoadPointer(&l.tail), next == nil
          /\ pc[t] = "Enqueue_check"
          /\ Goto(t, IF lv[t].tail # listTail[q] THEN "Enqueue_tail"
                     ELSE IF lv[t].next = 0 THEN "Enqueue_casNext" ELSE "Enqueue_swing",
                  lv[t])
          /\ UNCHANGED << listVars, hist >>
       \/ \* line 45: CompareAndSwapPointer(&tail.next, next, n)
          /\ pc[t] = "Enqueue_casNext"
          /\ IF node[lv[t].tail].next = lv[t].next
               THEN /\ node' = [node EXCEPT ![lv[t].tail].next = lv[t].n]
                    /\ Goto(t, "Enqueue_casTail", lv[t])
               ELSE /\ Goto(t, "Enqueue_tail", lv[t])
                    /\ UNCHANGED node
          /\ UNCHANGED << listHead, listTail, nodesMade, nodePool, hist >>
       \/ \* lines 46-47: CompareAndSwapPointer(&l.tail, tail, n); return
          /\ pc[t] = "Enqueue_casTail"
          /\ listTail' = IF listTail[q] = lv[t].tail
                           THEN [listTail EXCEPT ![q] = lv[t].n] ELSE listTail
          /\ Return(t, Result("Enqueue", q, lv[t].value, TRUE))
          /\ UNCHANGED << listHead, node, nodesMade, nodePool >>
       \/ \* line 51: CompareAndSwapPointer(&l.tail, tail, next)
          /\ pc[t] = "Enqueue_swing"
          /\ listTail' = IF listTail[q] = lv[t].tail
                           THEN [listTail EXCEPT ![q] = lv[t].next] ELSE listTail
          /\ Goto(t, "Enqueue_tail", lv[t])
          /\ UNCHANGED << listHead, node, nodesMade, nodePool, hist >>
    /\ UNCHANGED << ringVars, parkerVars, selectVars, gstatus, todo, ghost >>

\* lines 59-84: Dequeue(), one disjunct for each step
Dequeue(t) ==
    LET q == lv[t].q IN
    /\ \/ \* line 62: head = atomic.LoadPointer(&l.head)
          /\ pc[t] = "Dequeue"
          /\ Goto(t, "Dequeue_tail", [lv[t] EXCEPT !.head = listHead[q]])
          /\ UNCHANGED << listVars, hist >>
       \/ \* line 63: tail = atomic.LoadPointer(&l.tail)
          /\ pc[t] = "Dequeue_tail"
          /\ Goto(t, "Dequeue_next", [lv[t] EXCEPT !.tail = listTail[q]])
          /\ UNCHANGED << listVars, hist >>
       \/ \* line 64: next = atomic.LoadPointer(&head.next)
          /\ pc[t] = "Dequeue_next"
          /\ Goto(t, "Dequeue_check", [lv[t] EXCEPT !.next = node[lv[t].head].next])
          /\ UNCHANGED << listVars, hist >>
       \/ \* lines 65-69: head == atomic.LoadPointer(&l.head), head == tail, next == nil
          /\ pc[t] = "Dequeue_check"
          /\ IF lv[t].head # listHead[q]
               THEN Goto(t, "Dequeue", lv[t]) /\ UNCHANGED hist
               ELSE IF lv[t].head # lv[t].tail
                      THEN Goto(t, "Dequeue_value", lv[t]) /\ UNCHANGED hist
                      ELSE IF lv[t].next = 0
                             THEN Return(t, Result("Dequeue", q, NilSel, FALSE))
                             ELSE Goto(t, "Dequeue_swing", lv[t]) /\ UNCHANGED hist
          /\ UNCHANGED listVars
       \/ \* line 71: CompareAndSwapPointer(&l.tail, tail, next)
          /\ pc[t] = "Dequeue_swing"
          /\ listTail' = IF listTail[q] = lv[t].tail
                           THEN [listTail EXCEPT ![q] = lv[t].next] ELSE listTail
          /\ Goto(t, "Dequeue", lv[t])
          /\ UNCHANGED << listHead, node, nodesMade, nodePool, hist >>
       \/ \* line 74: value = next.value; a nil next is a nil pointer dereference
          /\ pc[t] = "Dequeue_value"
          /\ IF lv[t].next = 0
               THEN Panic
               ELSE Goto(t, "Dequeue_casHead", [lv[t] EXCEPT !.data = node[lv[t].next].value])
          /\ UNCHANGED << listVars, hist >>
       \/ \* line 75: CompareAndSwapPointer(&l.head, head, next)
          /\ pc[t] = "Dequeue_casHead"
          /\ IF listHead[q] = lv[t].head
               THEN /\ listHead' = [listHead EXCEPT ![q] = lv[t].next]
                    /\ Goto(t, "Dequeue_free", lv[t])
               ELSE /\ Goto(t, "Dequeue", lv[t])
                    /\ UNCHANGED listHead
          /\ UNCHANGED << listTail, node, nodesMade, nodePool, hist >>
       \/ \* lines 77-79: head.next, head.value = nil, nil; nodePool.Put(head); return
          /\ pc[t] = "Dequeue_free"
          /\ node' = [node EXCEPT ![lv[t].head] = [next |-> 0, value |-> NilSel]]
          /\ nodePool' = nodePool \cup {lv[t].head}
          /\ Return(t, Result("Dequeue", q, lv[t].data, lv[t].data # NilSel))
          /\ UNCHANGED << listHead, listTail, nodesMade >>
    /\ UNCHANGED << ringVars, parkerVars, selectVars, gstatus, todo, ghost >>

\* a selector enqueues 1 and 2 on the list of queue 1 and 3 on the list of queue 2;
\* two goroutines dequeue, as the Write of a producer and selectSender do
InitList ==
    \E q \in Queues :
        New([r \in Queues |-> 1],
            [NoProgram EXCEPT
               !["s1"] = << [WriteCall(1, 1) EXCEPT !.op = "Enqueue", !.entry = "Enqueue"],
                            [WriteCall(1, 2) EXCEPT !.op = "Enqueue", !.entry = "Enqueue"],
                            [WriteCall(2, 3) EXCEPT !.op = "Enqueue", !.entry = "Enqueue"] >>,
               !["p1"] = << [ReadCall(1) EXCEPT !.op = "Dequeue", !.entry = "Dequeue"],
                            [ReadCall(q) EXCEPT !.op = "Dequeue", !.entry = "Dequeue"] >>,
               !["p2"] = << [ReadCall(1) EXCEPT !.op = "Dequeue", !.entry = "Dequeue"],
                            [ReadCall(q) EXCEPT !.op = "Dequeue", !.entry = "Dequeue"] >>],
            "Aux_parked")

NextList == \E t \in {"s1", "p1", "p2"} : Call(t) \/ Enqueue(t) \/ Dequeue(t)

SpecList == InitList /\ [][NextList]_vars

\* the nodes of a chain of next pointers that starts at node n, at most k of them
RECURSIVE Chain(_, _)
Chain(n, k) == IF n = 0 \/ k = 0 THEN {} ELSE {n} \cup Chain(node[n].next, k - 1)

\* the payloads the Dequeue calls on the list of queue q have returned, one entry
\* for each call
Dequeued(q) == { e \in Returned("Dequeue", q) : hist[e[1]][e[2]].res }

\* C23: a Dequeue returns only payloads enqueued on its list, no payload is returned
\* by two Dequeues, 2 leaves the list of queue 1 only after 1 has left it, and a
\* payload that was enqueued and not dequeued is in the list
ListIsFifo ==
    /\ pc["p1"] # "panic"
    /\ \A e \in Dequeued(1) : hist[e[1]][e[2]].value \in {1, 2}
    /\ \A e \in Dequeued(2) : hist[e[1]][e[2]].value = 3
    /\ \A e, f \in Dequeued(1) \cup Dequeued(2) :
         hist[e[1]][e[2]].value = hist[f[1]][f[2]].value => e = f
    /\ (\E e \in Dequeued(1) : hist[e[1]][e[2]].value = 2)
         => \/ \E e \in Dequeued(1) : hist[e[1]][e[2]].value = 1
            \/ \E t \in {"p1", "p2"} : pc[t] = "Dequeue_free" /\ lv[t].data = 1
    /\ \A q \in Queues :
         (\A t \in {"p1", "p2"} : pc[t] = "idle")
           => \A e \in Returned("Enqueue", q) :
                \/ \E f \in Dequeued(q) : hist[f[1]][f[2]].value = hist[e[1]][e[2]].value
                \/ \E n \in Chain(node[listHead[q]].next, MaxNodes) :
                     node[n].value = hist[e[1]][e[2]].value

\* C30: a Selection record is released only after every waitlist it was enqueued on
\* has dequeued it, each dequeue decrementing its count once: a payload enqueued once
\* on a waitlist is returned by at most one Dequeue, and only by a Dequeue on that list
RecordDequeuedOnce ==
    /\ \A e, f \in Dequeued(1) \cup Dequeued(2) :
         hist[e[1]][e[2]].value = hist[f[1]][f[2]].value => e = f
    /\ \A q \in Queues : \A e \in Dequeued(q) :
         \E f \in Returned("Enqueue", q) \cup {<< "s1", Len(hist["s1"]) + 1 >>} :
            IF f[2] <= Len(hist["s1"])
              THEN hist[f[1]][f[2]].value = hist[e[1]][e[2]].value
              ELSE /\ pc["s1"] \notin {"idle", "panic"} /\ lv["s1"].q = q
                   /\ lv["s1"].value = hist[e[1]][e[2]].value

\* C24: head and tail of a list are never nil, tail is reachable from head by next
\* pointers and is the last node or the node before the last, and a Dequeue that
\* returns nil leaves head and tail as they are
ListStructure ==
    /\ [](\A q \in Queues :
            /\ listHead[q] # 0 /\ listTail[q] # 0
            /\ listTail[q] \in Chain(listHead[q], MaxNodes)
            /\ \/ node[listTail[q]].next = 0
               \/ node[node[listTail[q]].next].next = 0)
    /\ [][\A t \in {"p1", "p2"} :
            (pc[t] = "Dequeue_check" /\ pc'[t] = "idle")
              => (listHead' = listHead /\ listTail' = listTail /\ lv[t].next = 0)]_vars

=============================================================================
